---- MODULE Spec2Model ----
(***************************************************************************)
(* wg-mesh-configurator: the provisioning service (lib/provisioning/       *)
(* service.ts), its state store (repository.ts) and the runtime adapter    *)
(* it drives, as a state machine.  Every await of a request handler is one *)
(* step; the synchronous code that follows an await belongs to that step.  *)
(***************************************************************************)
EXTENDS Integers, Sequences, FiniteSets, TLC

\* ------------------------------------------------------------------ bounds
MaxReqs == 2         \* requests started in one behaviour
MaxFail == 1         \* runtime commands that fail in one behaviour
MaxRollbackFail == 1 \* compensations of a reconciliation that fail besides
MaxRetries == 2      \* stands for acquireLock's retries = 20

\* ------------------------------------------------------------------ values
Tasks == {"t1", "t2"}
Name == "wg0"
NoIface == [present |-> FALSE, revision |-> 0, isUp |-> TRUE]
NoLock == "none"
DeadFresh == "dead_fresh"
DeadOld == "dead_old"
DeadEmpty == "dead_empty"
Gone == "gone"

Peer(id, key, act, ifc, cfg) ==
  [peerId |-> id, name |-> id, publicKey |-> key, isActive |-> act, interface |-> ifc,
   cfg |-> cfg]

P1 == Peer("p1", "k1", TRUE, "", 0)
P2 == Peer("p2", "k2", TRUE, "wg0", 0)
P3 == Peer("p3", "k3", TRUE, "wg1", 1)
P4 == Peer("p4", "k3", FALSE, "", 0)
Q1 == Peer("q1", "k9", TRUE, "wg1", 0)
NoPeer == Peer("", "", FALSE, "", 0)

Operation(op, id, peer, patch, act) ==
  [op |-> op, peerId |-> id, peer |-> peer, patch |-> patch, isActive |-> act]

opAdd(p) == Operation("add", p.peerId, p, 0, FALSE)
opUpdate(id, c) == Operation("update", id, NoPeer, c, FALSE)
opToggle(id, a) == Operation("toggle", id, NoPeer, 0, a)
opRemove(id) == Operation("remove", id, NoPeer, 0, FALSE)

\* the operation lists a request may carry
Batches ==
  { <<opAdd(P2), opAdd(P3)>>,                    \* two active peers
    <<opAdd(P2), opToggle("p1", FALSE)>>,        \* add, then deactivate
    <<opToggle("p1", TRUE), opUpdate("p1", 1)>>, \* activate, then patch
    <<opUpdate("p1", 1), opRemove("p1")>>,       \* patch, then remove
    <<opRemove("p7")>>,                          \* unknown peer: skipped
    <<opAdd(P4)>> }                              \* inactive peer: no runtime op

\* ------------------------------------------------------------ pure helpers
RECURSIVE SelectPeers(_, _)
SelectPeers(s, keep) ==
  IF s = <<>> THEN <<>>
  ELSE IF keep[Head(s).interface] THEN <<Head(s)>> \o SelectPeers(Tail(s), keep)
       ELSE SelectPeers(Tail(s), keep)

Interfaces == {"", "wg0", "wg1"}

\* p.interface === name || (!p.interface && name === "wg0")
getPeersForInterface(state, name) ==
  SelectPeers(state.peers,
              [i \in Interfaces |-> i = name \/ (i = "" /\ name = "wg0")])

\* variant: a peer without an interface is never taken as a peer of wg0
otherPeers_named(state, name) ==
  SelectPeers(state.peers, [i \in Interfaces |-> i # name])

\* p.interface !== name && (p.interface || name !== "wg0")
otherPeers(state, name) ==
  SelectPeers(state.peers,
              [i \in Interfaces |-> i # name /\ (i # "" \/ name # "wg0")])

RECURSIVE findIndexFrom(_, _, _)
findIndexFrom(s, id, j) ==
  IF j > Len(s) THEN 0
  ELSE IF s[j].peerId = id THEN j ELSE findIndexFrom(s, id, j + 1)

\* currentPeers.findIndex((p) => p.peerId === operation.peerId); 0 stands for -1
findIndex(s, id) == findIndexFrom(s, id, 1)

RemoveAt(s, j) == SubSeq(s, 1, j - 1) \o SubSeq(s, j + 1, Len(s))

RuntimeOp(type, peer, previous) == [type |-> type, peer |-> peer, previous |-> previous]

AuditEntry(action, id) == [action |-> action, peerId |-> id]

EmptyPlan(peers) ==
  [cur |-> peers, rops |-> <<>>, alog |-> <<>>,
   added |-> 0, updated |-> 0, toggled |-> 0, removed |-> 0]

\* one iteration of the loop over input.operations
planStep(acc, name, o) ==
  IF o.op = "add" THEN
    LET newPeer == [o.peer EXCEPT !.interface = name]
    IN [acc EXCEPT !.cur = Append(@, newPeer),
                   !.rops = IF newPeer.isActive
                            THEN Append(@, RuntimeOp("add", newPeer, NoPeer)) ELSE @,
                   !.alog = Append(@, AuditEntry("peer.add", newPeer.peerId)),
                   !.added = @ + 1]
  ELSE
    LET idx == findIndex(acc.cur, o.peerId)
    IN IF idx = 0 THEN acc
       ELSE IF o.op = "update" THEN
         LET previous == acc.cur[idx]
             nextPeer == [acc.cur[idx] EXCEPT !.cfg = o.patch]
         IN [acc EXCEPT !.cur = [@ EXCEPT ![idx] = nextPeer],
                        !.rops = IF nextPeer.isActive
                                 THEN Append(@, RuntimeOp("update", nextPeer, previous))
                                 ELSE @,
                        !.alog = Append(@, AuditEntry("peer.update", o.peerId)),
                        !.updated = @ + 1]
       ELSE IF o.op = "toggle" THEN
         LET toggledPeer == [acc.cur[idx] EXCEPT !.isActive = o.isActive]
         IN [acc EXCEPT !.cur = [@ EXCEPT ![idx] = toggledPeer],
                        !.rops = Append(@, RuntimeOp(IF o.isActive THEN "add" ELSE "remove",
                                                     toggledPeer, NoPeer)),
                        !.alog = Append(@, AuditEntry("peer.toggle", o.peerId)),
                        !.toggled = @ + 1]
       ELSE
         [acc EXCEPT !.cur = RemoveAt(@, idx),
                     !.rops = Append(@, RuntimeOp("remove", acc.cur[idx], NoPeer)),
                     !.alog = Append(@, AuditEntry("peer.remove", o.peerId)),
                     !.removed = @ + 1]

RECURSIVE planOperations(_, _, _)
planOperations(acc, name, ops) ==
  IF ops = <<>> THEN acc
  ELSE planOperations(planStep(acc, name, Head(ops)), name, Tail(ops))

\* op.type.toUpperCase()
toUpperCase == [add |-> "ADD", update |-> "UPDATE", remove |-> "REMOVE"]

\* one line of the dry-run plan: `[REMOVE] wg set <name> peer <key> remove`, or
\* `[ADD|UPDATE] wg set <name> peer <key> allowed-ips <ips>`
planLine(op, name) ==
  IF op.type = "remove" THEN <<"REMOVE", name, op.peer.publicKey, "remove">>
  ELSE <<toUpperCase[op.type], name, op.peer.publicKey, "allowed-ips", op.peer.cfg>>

\* variant: the plan lists the runtime ops last to first
dryRunPlan_reversed(rops, name) ==
  [j \in 1..Len(rops) |-> planLine(rops[Len(rops) + 1 - j], name)]

\* runtimeOps.map(...) of the dry-run branch
dryRunPlan(rops, name) == [j \in 1..Len(rops) |-> planLine(rops[j], name)]

\* summary: { added, updated, toggled, removed }
summaryOf(acc) ==
  [added |-> acc.added, updated |-> acc.updated, toggled |-> acc.toggled,
   removed |-> acc.removed]


\* ------------------------------------------------------------------- state
VARIABLES
  file,        \* the persisted state document (PersistedState)
  lock,        \* the lock file: NoLock, or what its content says of its writer
  rt,          \* the live WireGuard interface Name, as the adapter sees it
  auditStore,  \* the in-memory audit ring of Name, newest first (SpecAudit: every ring)
  tk,          \* per task: the request it runs, its position and its locals
  nreq,        \* requests started so far
  fails,       \* runtime or save failures so far
  tmpFiles     \* the temp files of the state store, by the clock value in their name

vars == <<file, lock, rt, auditStore, tk, nreq, fails, tmpFiles>>

Keys == {"k1", "k2", "k3"}
KeySeq == <<"k1", "k2", "k3">>
Absent == -1
IfaceNames == {"wg0", "wg1"}

\* Date.now() as it appears in a temp file name; what a file may hold besides a
\* complete document: nothing (just created or truncated) or a mix of two writes
Clock == 1..2
NoClock == 0
NoFile == [text |-> "ENOENT"]
Truncated == [text |-> ""]
Torn == [text |-> "torn"]
NoTemps == [c \in Clock |-> NoFile]

\* a device that does not exist
NoDevice == [exists |-> FALSE, isUp |-> FALSE, peers |-> [k \in Keys |-> Absent]]

\* variant: the synthetic record starts at revision 1
SyntheticIface_rev1 == [present |-> TRUE, revision |-> 1, isUp |-> TRUE]

\* the record made up for a device that the state file does not hold
SyntheticIface == [present |-> TRUE, revision |-> 0, isUp |-> TRUE]

\* a JS number n >= 0 as [hi, lo] with n = hi * 2^16 + lo and lo < 2^16: IPv4
\* addresses as numbers go up to 2^32 - 1 and `last` beyond it
num(hi, lo) == [hi |-> hi + (lo \div 65536), lo |-> lo % 65536]
Zero == num(0, 0)

\* a CIDR string "a.b.c.d/prefix": the dotted parts and the prefix as numbers
NoCidr == [ip |-> <<>>, prefix |-> 0]
NoParsed == [error |-> "none", base |-> Zero, prefix |-> 0, size |-> Zero, last |-> Zero]

\* an audit query without a cursor; a page without a next cursor
NoCursor == 0

NoReq ==
  [kind |-> "none", name |-> Name, revision |-> 0, dryRun |-> FALSE,
   operations |-> <<>>, isUp |-> FALSE, mode |-> "none", peers |-> <<>>,
   limit |-> 0, cursor |-> NoCursor, publicKey |-> "", secret |-> "",
   networkCidr |-> NoCidr, nodes |-> 0, clients |-> 0, gatewayNodeNames |-> {},
   autoGenerateKeys |-> FALSE, nodeKeys |-> <<>>, clientKeys |-> <<>>]

NoResult == [ok |-> FALSE, dryRun |-> FALSE, plan |-> <<>>, summary |-> summaryOf(EmptyPlan(<<>>)),
             items |-> <<>>, nextCursor |-> NoCursor, interfaces |-> <<>>,
             nodeIps |-> <<>>, clientIps |-> <<>>, parsed |-> NoParsed, neighbors |-> <<>>,
             resolvedNodes |-> <<>>, resolvedClients |-> <<>>,
             revision |-> 0, currentRevision |-> 0,
             nextRevision |-> 0, isUp |-> FALSE]

EmptyState == [interfaces |-> [n \in IfaceNames |-> NoIface], peers |-> <<>>]

IdleTask ==
  [pc |-> "idle", req |-> NoReq, phase |-> "load", i |-> 0, seen |-> NoLock,
   loaded |-> EmptyState, ifaceState |-> NoIface, plan |-> EmptyPlan(<<>>),
   stack |-> <<>>, k |-> 0, fixed |-> 0, rtPeers |-> <<>>, zombies |-> <<>>,
   error |-> "none", details |-> [expected |-> 0, received |-> 0],
   result |-> NoResult, ret |-> 0, rt0 |-> NoDevice,
   missing |-> <<>>, emit |-> <<>>,
   \* history of the request, for the properties: the state file and the runtime
   \* peers when it arrived, its runtime calls, its saves and its audit entries
   file0 |-> EmptyState, calls |-> <<>>, wrote |-> 0, savedRev |-> 0, pushed |-> 0,
   \* _saveWithoutLock: the clock value in tempFile, where the inode of the open
   \* handle is linked, and the step that threw
   tempFile |-> NoClock, handle |-> "none", threw |-> "none",
   \* addPeer, upInterface: the temp file of the key and what `wg set` read in it
   tmpKeyFile |-> "", consumed |-> "none",
   \* generateZip: the cache of the PSKs, the pairs asked for and the last answer
   pskMap |-> <<>>, asked |-> {}, psk |-> <<>>]

\* ---------------------------------------------------------- runtime adapter
\* `wg set <if> peer <key> allowed-ips ...` creates the peer or overwrites it
addPeer(r, peer) == [r EXCEPT !.peers[peer.publicKey] = peer.cfg]

\* `wg set <if> peer <key> remove`; a missing peer is not an error (ignoreIfMissing)
removePeer(r, publicKey) == [r EXCEPT !.peers[publicKey] = Absent]

updatePeer(r, peer) == addPeer(r, peer)

toggleInterface(r, isUp) == [r EXCEPT !.isUp = isUp]

\* a command on a device that does not exist fails
runCommandPossible(r) == r.exists

Call(fn, key, cfg, ok) == [fn |-> fn, publicKey |-> key, cfg |-> cfg, ok |-> ok]

\* ------------------------------------------------------------ service: pure
\* variant: the two details exchanged
RevisionConflictError_swapped(expected, received) == [expected |-> received, received |-> expected]

RevisionConflictError(expected, received) == [expected |-> expected, received |-> received]

\* assertRevision throws iff this is TRUE
revisionMismatch(currentRevision, expectedRevision) == currentRevision # expectedRevision

\* the runtime call of one scheduled op (service.ts 319-330)
runtimeCallOf(op) ==
  IF op.type = "add" THEN Call("addPeer", op.peer.publicKey, op.peer.cfg, TRUE)
  ELSE IF op.type = "remove" THEN Call("removePeer", op.peer.publicKey, Absent, TRUE)
  ELSE Call("updatePeer", op.peer.publicKey, op.peer.cfg, TRUE)

\* the compensating call of one rollback-stack entry (rollbackRuntime, 301-316)
rollbackCallOf(op) ==
  IF op.type = "add" THEN Call("removePeer", op.peer.publicKey, Absent, TRUE)
  ELSE IF op.type = "remove" THEN Call("addPeer", op.peer.publicKey, op.peer.cfg, TRUE)
  ELSE Call("updatePeer", op.previous.publicKey, op.previous.cfg, TRUE)

execCall(r, c) ==
  IF c.fn = "removePeer" THEN removePeer(r, c.publicKey)
  ELSE IF c.fn = "addPeer" THEN addPeer(r, [publicKey |-> c.publicKey, cfg |-> c.cfg])
  ELSE updatePeer(r, [publicKey |-> c.publicKey, cfg |-> c.cfg])

\* variant: the list is never cut
pushAudit_unbounded(list, entry) == <<entry>> \o list

\* pushAudit: unshift, then keep the first 500
AuditCap == 500
pushAudit(list, entry) == SubSeq(<<entry>> \o list, 1, IF Len(list) + 1 > AuditCap THEN AuditCap ELSE Len(list) + 1)

RECURSIVE pushAll(_, _)
pushAll(list, entries) ==
  IF entries = <<>> THEN list ELSE pushAll(pushAudit(list, Head(entries)), Tail(entries))


\* ------------------------------------------------- service: continuations
\* The synchronous code between two awaits, as a function of the task's record.

\* the handler returns or throws; its locals go out of scope
done(r, err, det) ==
  [r EXCEPT !.pc = "done", !.error = err, !.details = det, !.phase = "load",
            !.loaded = EmptyState, !.i = 0, !.seen = NoLock, !.k = 0]

NoDetails == [expected |-> 0, received |-> 0]

\* stateManager.update(...) is entered: acquireLock first
startUpdate(r) == [r EXCEPT !.phase = "update", !.pc = "acq_create", !.i = 0]

\* variant: a failed update is rethrown without any compensation
updateFailed_noRollback(r, err, det) == done(r, err, det)

\* the handler's catch block once update (or its lock) failed
updateFailed(r, err, det) ==
  LET e == [r EXCEPT !.error = err, !.details = det]
  IN IF r.req.kind = "apply"
     THEN IF Len(r.stack) = 0 THEN done(e, err, det)
          ELSE [e EXCEPT !.pc = "rollback", !.k = Len(r.stack), !.loaded = EmptyState]
     ELSE IF r.req.kind = "toggle" THEN [e EXCEPT !.pc = "tg_back", !.loaded = EmptyState]
     ELSE done(e, err, det)

\* variant: the dryRun flag is ignored
applyAfterIface_noDryRun(r, iface) ==
  LET plan == planOperations(EmptyPlan(getPeersForInterface(r.loaded, r.req.name)),
                             r.req.name, r.req.operations)
      r1 == [r EXCEPT !.ifaceState = iface, !.plan = plan, !.loaded = EmptyState]
  IN IF plan.rops = <<>> THEN startUpdate(r1)
     ELSE [r1 EXCEPT !.pc = "run", !.k = 1]

\* applyPeerOperations 225-298, after ifaceState is known
applyAfterIface(r, iface) ==
  LET plan == planOperations(EmptyPlan(getPeersForInterface(r.loaded, r.req.name)),
                             r.req.name, r.req.operations)
      r1 == [r EXCEPT !.ifaceState = iface, !.plan = plan, !.loaded = EmptyState]
  IN IF r.req.dryRun
     THEN [done(r1, "none", NoDetails) EXCEPT
             !.result = [NoResult EXCEPT !.ok = TRUE, !.dryRun = TRUE,
                                         !.currentRevision = iface.revision,
                                         !.nextRevision = iface.revision + 1,
                                         !.plan = dryRunPlan(plan.rops, r.req.name),
                                         !.summary = summaryOf(plan)]]
     ELSE IF plan.rops = <<>> THEN startUpdate(r1)
     ELSE [r1 EXCEPT !.pc = "run", !.k = 1]

\* toggleInterfaceState 383-389
toggleAfterIface(r, iface) ==
  LET r1 == [r EXCEPT !.ifaceState = iface, !.loaded = EmptyState]
  IN IF r.req.dryRun
     THEN [done(r1, "none", NoDetails) EXCEPT
             !.result = [NoResult EXCEPT !.ok = TRUE, !.isUp = iface.isUp,
                                         !.revision = iface.revision]]
     ELSE [r1 EXCEPT !.pc = "tg_rt"]

\* reconcileInterface 441-444
reconcileAfterIface(r, iface) == [r EXCEPT !.ifaceState = iface, !.pc = "rc_read"]

\* assertRevision(ifaceState.revision, input.revision) and what follows it
afterIface(r, iface) ==
  IF revisionMismatch(iface.revision, r.req.revision)
  THEN done([r EXCEPT !.ifaceState = iface], "REVISION_CONFLICT",
            RevisionConflictError(iface.revision, r.req.revision))
  ELSE IF r.req.kind = "apply" THEN applyAfterIface(r, iface)
  ELSE IF r.req.kind = "toggle" THEN toggleAfterIface(r, iface)
  ELSE reconcileAfterIface(r, iface)

\* after `await stateManager.load()`: the interface record, or the runtime probe
afterLoad(r) ==
  LET iface == r.loaded.interfaces[r.req.name]
  IN IF iface.present THEN afterIface(r, iface) ELSE [r EXCEPT !.pc = "get_iface"]

\* variant: the revision grows by the number of operations of the batch
applyClosure_perOp(r, state) ==
  LET name == r.req.name
      iface == state.interfaces[name]
      n == Len(r.req.operations)
  IN IF revisionMismatch(iface.revision, r.req.revision)
     THEN [r EXCEPT !.pc = "release", !.error = "REVISION_CONFLICT", !.loaded = EmptyState,
                    !.details = RevisionConflictError(iface.revision, r.req.revision)]
     ELSE [r EXCEPT !.pc = "cs_save",
                    !.loaded = [interfaces |-> [state.interfaces EXCEPT
                                                  ![name].revision = @ + n],
                                peers |-> otherPeers(state, name) \o r.plan.cur],
                    !.ret = iface.revision + n]

\* the closure of applyPeerOperations, 345-351
applyClosure(r, state) ==
  LET name == r.req.name
      iface == state.interfaces[name]
  IN IF revisionMismatch(iface.revision, r.req.revision)
     THEN [r EXCEPT !.pc = "release", !.error = "REVISION_CONFLICT", !.loaded = EmptyState,
                    !.details = RevisionConflictError(iface.revision, r.req.revision)]
     ELSE [r EXCEPT !.pc = "cs_save",
                    !.loaded = [interfaces |-> [state.interfaces EXCEPT
                                                  ![name].revision = @ + 1],
                                peers |-> otherPeers(state, name) \o r.plan.cur],
                    !.ret = iface.revision + 1]

\* the closure of toggleInterfaceState, 404-409
toggleClosure(r, state) ==
  LET name == r.req.name
      iface == state.interfaces[name]
  IN IF revisionMismatch(iface.revision, r.req.revision)
     THEN [r EXCEPT !.pc = "release", !.error = "REVISION_CONFLICT", !.loaded = EmptyState,
                    !.details = RevisionConflictError(iface.revision, r.req.revision)]
     ELSE [r EXCEPT !.pc = "cs_save",
                    !.loaded = [state EXCEPT !.interfaces[name].isUp = r.req.isUp,
                                             !.interfaces[name].revision = @ + 1],
                    !.ret = iface.revision + 1]


\* ---------------------------------------------------------------- reconcile
\* randomUUID() for the managed peer synthesized from a runtime peer
uuidOf == [k \in Keys |-> IF k = "k1" THEN "u1" ELSE IF k = "k2" THEN "u2" ELSE "u3"]

RECURSIVE runtimePeersFrom(_, _)
runtimePeersFrom(r, j) ==
  IF j > Len(KeySeq) THEN <<>>
  ELSE IF r.peers[KeySeq[j]] # Absent
       THEN <<[publicKey |-> KeySeq[j], cfg |-> r.peers[KeySeq[j]]]>> \o runtimePeersFrom(r, j + 1)
       ELSE runtimePeersFrom(r, j + 1)

\* getInterface(name).peers; a device that does not exist has none
getInterfacePeers(r) == IF r.exists THEN runtimePeersFrom(r, 1) ELSE <<>>

keysOf(s) == {s[j].publicKey : j \in 1..Len(s)}

RECURSIVE missingInRuntime(_, _)
missingInRuntime(interfacePeers, runtimeKeys) ==
  IF interfacePeers = <<>> THEN <<>>
  ELSE LET p == Head(interfacePeers)
           rest == missingInRuntime(Tail(interfacePeers), runtimeKeys)
       IN IF p.isActive /\ p.publicKey \notin runtimeKeys THEN <<p>> \o rest ELSE rest

RECURSIVE zombiesOf(_, _)
zombiesOf(runtimePeers, stateKeys) ==
  IF runtimePeers = <<>> THEN <<>>
  ELSE LET z == Head(runtimePeers)
           rest == zombiesOf(Tail(runtimePeers), stateKeys)
       IN IF z.publicKey \notin stateKeys THEN <<z>> \o rest ELSE rest

\* zombie.publicKey.slice(0, 8): the keys k1 and k2 begin alike
slice8 == [k \in Keys |-> IF k = "k3" THEN "bbbbbbbb" ELSE "aaaaaaaa"]

syntheticPeer(z, name) ==
  [Peer(uuidOf[z.publicKey], z.publicKey, TRUE, name, z.cfg) EXCEPT
     !.name = "runtime-" \o slice8[z.publicKey]]

\* variant: the zombies are left in runtime
reconcileFixes_addsOnly(missing, zombies, name) ==
  [j \in 1..Len(missing) |-> RuntimeOp("add", missing[j], NoPeer)]

\* the runtime fixes of mode state_to_runtime, in the order of the two loops (457-476)
reconcileFixes(missing, zombies, name) ==
  [j \in 1..(Len(missing) + Len(zombies)) |->
     IF j <= Len(missing) THEN RuntimeOp("add", missing[j], NoPeer)
     ELSE RuntimeOp("remove", syntheticPeer(zombies[j - Len(missing)], name), NoPeer)]

\* reconcileInterface 444-456, once the runtime peers are read
reconcileAfterRead(r, runtimePeers) ==
  LET interfacePeers == getPeersForInterface(r.loaded, r.req.name)
      missing == missingInRuntime(interfacePeers, keysOf(runtimePeers))
      zombies == zombiesOf(runtimePeers, keysOf(interfacePeers))
      fixes == reconcileFixes(missing, zombies, r.req.name)
      r1 == [r EXCEPT !.rtPeers = runtimePeers, !.missing = missing, !.zombies = zombies,
                      !.loaded = EmptyState]
  IN IF r.req.mode = "state_to_runtime" /\ fixes # <<>>
     THEN [r1 EXCEPT !.plan.rops = fixes, !.pc = "rc_fix", !.k = 1]
     ELSE startUpdate(r1)

\* the catch block of reconcileInterface, 478-489
reconcileRollbackCallOf(op) ==
  IF op.type = "add" THEN Call("removePeer", op.peer.publicKey, Absent, TRUE)
  ELSE Call("addPeer", op.peer.publicKey, op.peer.cfg, TRUE)

RECURSIVE deactivateMissing(_, _)
deactivateMissing(peers, runtimeKeys) ==
  IF peers = <<>> THEN <<>>
  ELSE LET p == Head(peers)
       IN <<IF p.isActive /\ p.publicKey \notin runtimeKeys
            THEN [p EXCEPT !.isActive = FALSE] ELSE p>>
          \o deactivateMissing(Tail(peers), runtimeKeys)

\* variant: the runtime-only peers are not taken into the state
syntheticPeers_none(zombies, name) == <<>>

syntheticPeers(zombies, name) == [j \in 1..Len(zombies) |-> syntheticPeer(zombies[j], name)]

\* the closure of reconcileInterface, 507-545
reconcileClosure(r, state) ==
  LET name == r.req.name
      iface == state.interfaces[name]
      runtimeKeys == keysOf(r.rtPeers)
      mine == getPeersForInterface(state, name)
      nDeact == Len(missingInRuntime(mine, runtimeKeys))
      r2s == r.req.mode = "runtime_to_state"
      nextPeers == deactivateMissing(mine, runtimeKeys) \o syntheticPeers(r.zombies, name)
      fixed == IF r2s THEN r.fixed + nDeact + Len(r.zombies) ELSE r.fixed
      changed == IF r2s THEN nDeact + Len(r.zombies) > 0 ELSE r.fixed > 0
      revision == IF changed THEN iface.revision + 1 ELSE iface.revision
  IN IF revisionMismatch(iface.revision, r.req.revision)
     THEN [r EXCEPT !.pc = "release", !.error = "REVISION_CONFLICT", !.loaded = EmptyState,
                    !.details = RevisionConflictError(iface.revision, r.req.revision)]
     ELSE [r EXCEPT !.pc = "cs_save",
                    !.loaded = [interfaces |-> [state.interfaces EXCEPT
                                                  ![name].revision = revision],
                                peers |-> IF r2s THEN otherPeers(state, name) \o nextPeers
                                          ELSE state.peers],
                    !.fixed = fixed,
                    !.ret = revision]

\* ------------------------------------------------------------------- deploy
DeployPeer(key, cfg) == [publicKey |-> key, cfg |-> cfg]

deployUuid == [k \in Keys |-> IF k = "k1" THEN "d1" ELSE IF k = "k2" THEN "d2" ELSE "d3"]

\* deployMeshConfig 580-590
newPeers(config, name) ==
  [j \in 1..Len(config) |->
     Peer(deployUuid[config[j].publicKey], config[j].publicKey, TRUE, name, config[j].cfg)]

\* the closure of deployMeshConfig, 592-607
deployClosure(r, state) ==
  LET name == r.req.name
      old == state.interfaces[name]
      revision == (IF old.present THEN old.revision ELSE 0) + 1
  IN [r EXCEPT !.pc = "cs_save",
               !.loaded = [interfaces |-> [state.interfaces EXCEPT
                                             ![name] = [present |-> TRUE,
                                                        revision |-> revision,
                                                        isUp |-> TRUE]],
                           peers |-> otherPeers(state, name) \o newPeers(r.req.peers, name)],
               !.ret = revision]

deployFinish(r) ==
  [done(r, "none", NoDetails) EXCEPT
     !.result = [NoResult EXCEPT !.ok = TRUE],
     !.emit = <<AuditEntry("interface.deploy", "")>>]

deployAfterPurge(r) ==
  IF r.req.peers = <<>> THEN deployFinish(r) ELSE [r EXCEPT !.pc = "dp_add", !.k = 1]

\* variant: the runtime peers found are not purged
deployAfterRead_noPurge(r, runtimePeers) ==
  deployAfterPurge([r EXCEPT !.rtPeers = runtimePeers])

deployAfterRead(r, runtimePeers) ==
  IF runtimePeers = <<>> THEN deployAfterPurge([r EXCEPT !.rtPeers = runtimePeers])
  ELSE [r EXCEPT !.rtPeers = runtimePeers, !.pc = "dp_purge", !.k = 1]

\* --------------------------------------------------- state store: closures
\* callback(state) of StateManager.update, up to its first await
closureBody(r, state) ==
  IF r.req.kind = "apply" THEN applyClosure(r, state)
  ELSE IF r.req.kind = "toggle" THEN toggleClosure(r, state)
  ELSE IF r.req.kind = "reconcile" THEN reconcileClosure(r, state)
  ELSE deployClosure(r, state)

\* _loadWithoutLock has returned `state`
afterLockedLoad(r, state) ==
  IF r.phase = "load" THEN [r EXCEPT !.loaded = state, !.pc = "release"]
  ELSE IF r.req.kind # "deploy" /\ ~state.interfaces[r.req.name].present
       THEN [r EXCEPT !.loaded = state, !.pc = "cs_iface"]
  ELSE closureBody(r, state)

\* update() has returned r.ret
afterUpdate(r) ==
  IF r.req.kind = "apply"
  THEN [done(r, "none", NoDetails) EXCEPT
          !.result = [NoResult EXCEPT !.ok = TRUE, !.revision = r.ret,
                                      !.summary = summaryOf(r.plan)],
          !.emit = r.plan.alog]
  ELSE IF r.req.kind = "toggle"
  THEN [done(r, "none", NoDetails) EXCEPT
          !.result = [NoResult EXCEPT !.ok = TRUE, !.revision = r.ret, !.isUp = r.req.isUp],
          !.emit = <<AuditEntry("interface.toggle", "")>>]
  ELSE IF r.req.kind = "reconcile"
  THEN [done(r, "none", NoDetails) EXCEPT
          !.result = [NoResult EXCEPT !.ok = TRUE, !.revision = r.ret],
          !.emit = IF r.fixed > 0 THEN <<AuditEntry("interface.reconcile", "")>> ELSE <<>>]
  ELSE [r EXCEPT !.pc = "dp_link"]

\* releaseLock has run: what the caller of load()/update() does next
afterRelease(r) ==
  IF r.phase = "load"
  THEN IF r.error # "none" THEN done(r, r.error, r.details) ELSE afterLoad(r)
  ELSE IF r.error # "none" THEN updateFailed(r, r.error, r.details)
  ELSE afterUpdate(r)


\* ----------------------------------------------------------------- requests
\* the revision of the synthetic record and the one of the first saved record
Revisions == 0..1

D1 == DeployPeer("k2", 1)

\* the batches that are also submitted as dry runs
DryRunBatches ==
  { <<opAdd(P2), opAdd(P3)>>,
    <<opUpdate("p1", 1), opRemove("p1")>> }

ApplyRequests ==
  {[NoReq EXCEPT !.kind = "apply", !.revision = v, !.dryRun = d, !.operations = b] :
     v \in Revisions, d \in BOOLEAN, b \in Batches} \
  {[NoReq EXCEPT !.kind = "apply", !.revision = v, !.dryRun = TRUE, !.operations = b] :
     v \in Revisions, b \in Batches \ DryRunBatches}

ToggleRequests ==
  {[NoReq EXCEPT !.kind = "toggle", !.revision = v, !.dryRun = d, !.isUp = u] :
     v \in Revisions, d \in BOOLEAN, u \in BOOLEAN}

ReconcileRequests ==
  {[NoReq EXCEPT !.kind = "reconcile", !.revision = v, !.mode = m] :
     v \in Revisions, m \in {"runtime_to_state", "state_to_runtime"}}

DeployRequests ==
  {[NoReq EXCEPT !.kind = "deploy", !.peers = c] : c \in {<<>>, <<D1>>}}

Requests == ApplyRequests \cup ToggleRequests \cup ReconcileRequests \cup DeployRequests

\* --------------------------------------------------------------------- Init
ManagedState ==
  [interfaces |-> [n \in IfaceNames |->
                     IF n = Name THEN [present |-> TRUE, revision |-> 1, isUp |-> TRUE]
                     ELSE NoIface],
   peers |-> <<P1, Q1>>]

UnmanagedState == [interfaces |-> [n \in IfaceNames |-> NoIface], peers |-> <<Q1>>]

RuntimeWith(ks) ==
  [exists |-> TRUE, isUp |-> TRUE, peers |-> [k \in Keys |-> IF k \in ks THEN 0 ELSE Absent]]

\* the state file and the device as a request may find them
InitialWorlds ==
  {<<ManagedState, RuntimeWith({"k1"})>>,
   <<UnmanagedState, RuntimeWith({"k1"})>>,
   <<UnmanagedState, RuntimeWith({})>>,
   <<UnmanagedState, NoDevice>>}

Init ==
  /\ \E w \in InitialWorlds : file = w[1] /\ rt = w[2]
  /\ lock \in {NoLock, DeadOld}
  /\ auditStore = <<>>
  /\ tk = [t \in Tasks |-> IdleTask]
  /\ nreq = 0
  /\ fails = 0
  /\ tmpFiles = NoTemps

\* ------------------------------------------------------------------ actions
\* a step's continuation is stored; the audit entries it emits are pushed
commit(t, r) ==
  /\ tk' = [tk EXCEPT ![t] = [r EXCEPT !.emit = <<>>, !.pushed = @ + Len(r.emit)]]
  /\ auditStore' = pushAll(auditStore, r.emit)

\* tasks are interchangeable: a request is taken by the first idle one
Earlier(t) == IF t = "t2" THEN {"t1"} ELSE {}

\* a request arrives: the handler starts with load() (deploy: with update())
Start(t) ==
  /\ tk[t].pc = "idle"
  /\ \A u \in Earlier(t) : tk[u].pc # "idle"
  /\ nreq < MaxReqs
  /\ nreq' = nreq + 1
  /\ \E req \in Requests :
       commit(t, [IdleTask EXCEPT !.req = req, !.pc = "acq_create",
                                  !.phase = IF req.kind = "deploy" THEN "update" ELSE "load",
                                  !.rt0 = rt, !.file0 = file])
  /\ UNCHANGED <<file, lock, rt, fails, tmpFiles>>

\* the handler has returned or thrown: the response is sent, its locals are gone
Respond(t) ==
  /\ tk[t].pc = "done"
  /\ commit(t, IdleTask)
  /\ UNCHANGED <<file, lock, rt, nreq, fails, tmpFiles>>

\* acquireLock: fs.writeFile(lockFile, "<pid>:<now>", {flag: "wx"})
acquireLock_create(t) ==
  /\ tk[t].pc = "acq_create"
  /\ IF lock = NoLock
     THEN /\ lock' = t
          /\ commit(t, [tk[t] EXCEPT !.pc = "cs_load", !.i = 0, !.seen = NoLock])
     ELSE /\ lock' = lock
          /\ commit(t, [tk[t] EXCEPT !.pc = "acq_read"])
  /\ UNCHANGED <<file, rt, nreq, fails, tmpFiles>>

\* acquireLock: EEXIST, fs.readFile(lockFile); a vanished file is a read error
acquireLock_read(t) ==
  /\ tk[t].pc = "acq_read"
  /\ commit(t, [tk[t] EXCEPT !.pc = "acq_decide",
                              !.seen = IF lock = NoLock THEN Gone ELSE lock])
  /\ UNCHANGED <<file, lock, rt, nreq, fails, tmpFiles>>

\* now - ts > STALE_LOCK_TIMEOUT_MS && !isProcessRunning(pid); parseInt gives NaN
\* for the timestamp of a lock file without content, and now - NaN > 5000 is false
isStale(content) == content = DeadOld

\* the loop of acquireLock ran out: what the caller of load()/update() does
lockTimeout(r) ==
  IF r.phase = "load" THEN done(r, "LOCK_TIMEOUT", NoDetails)
  ELSE updateFailed(r, "LOCK_TIMEOUT", NoDetails)

\* variant: the loop never gives up
acquireLock_retry_forever(t) ==
  LET r == tk[t]
      r1 == [r EXCEPT !.i = @ + 1, !.pc = "acq_create"]
  IN /\ r.pc = "acq_decide"
     /\ lock' = IF isStale(r.seen) THEN NoLock ELSE lock
     /\ commit(t, r1)
     /\ UNCHANGED <<file, rt, nreq, fails, tmpFiles>>

\* acquireLock: unlink of a stale lock, or the sleep; then the next iteration
acquireLock_retry(t) ==
  LET r == tk[t]
      r1 == [r EXCEPT !.i = @ + 1, !.pc = "acq_create"]
  IN /\ r.pc = "acq_decide"
     /\ lock' = IF isStale(r.seen) THEN NoLock ELSE lock
     /\ commit(t, IF r1.i >= MaxRetries THEN lockTimeout(r1) ELSE r1)
     /\ UNCHANGED <<file, rt, nreq, fails, tmpFiles>>

\* _loadWithoutLock: the state file is read; the closure runs to its first await
loadWithoutLock(t) ==
  /\ tk[t].pc = "cs_load"
  /\ commit(t, afterLockedLoad(tk[t], file))
  /\ UNCHANGED <<file, lock, rt, nreq, fails, tmpFiles>>

\* wgAdapter.getInterface(name) inside the closure, for an interface not in the state
closure_getInterface(t) ==
  LET r == tk[t]
  IN /\ r.pc = "cs_iface"
     /\ commit(t, IF rt.exists
                  THEN closureBody(r, [r.loaded EXCEPT
                                         !.interfaces[r.req.name] = SyntheticIface])
                  ELSE [r EXCEPT !.pc = "release", !.error = "NOT_FOUND",
                                 !.loaded = EmptyState])
     /\ UNCHANGED <<file, lock, rt, nreq, fails, tmpFiles>>

\* _saveWithoutLock: the rename replaces the state file, or the save throws
saveWithoutLock(t) ==
  LET r == tk[t]
  IN /\ r.pc = "cs_save"
     /\ \/ /\ file' = r.loaded
           /\ fails' = fails
           /\ commit(t, [r EXCEPT !.pc = "release", !.wrote = @ + 1, !.loaded = EmptyState,
                                   !.savedRev = r.loaded.interfaces[r.req.name].revision])
        \/ /\ fails < MaxFail
           /\ fails' = fails + 1
           /\ file' = file
           /\ commit(t, [r EXCEPT !.pc = "release", !.error = "SAVE_FAILED",
                                   !.loaded = EmptyState])
     /\ UNCHANGED <<lock, rt, nreq, tmpFiles>>

\* variant: the lock file is left behind
releaseLock_keep(t) ==
  /\ tk[t].pc = "release"
  /\ lock' = lock
  /\ commit(t, afterRelease(tk[t]))
  /\ UNCHANGED <<file, rt, nreq, fails, tmpFiles>>

\* releaseLock: fs.unlink(lockFile), whoever wrote it
releaseLock(t) ==
  /\ tk[t].pc = "release"
  /\ lock' = NoLock
  /\ commit(t, afterRelease(tk[t]))
  /\ UNCHANGED <<file, rt, nreq, fails, tmpFiles>>

\* wgAdapter.getInterface(name) for an interface the loaded state does not hold
getInterface_probe(t) ==
  LET r == tk[t]
  IN /\ r.pc = "get_iface"
     /\ commit(t, IF rt.exists THEN afterIface(r, SyntheticIface)
                  ELSE done(r, "NOT_FOUND", NoDetails))
     /\ UNCHANGED <<file, lock, rt, nreq, fails, tmpFiles>>

\* a runtime command either runs or fails; on a missing device it always fails
commandRuns(c) ==
  /\ runCommandPossible(rt)
  /\ rt' = execCall(rt, c)
  /\ fails' = fails

\* the failures one behaviour may hold: MaxFail, and MaxRollbackFail more while
\* the catch block of reconcileInterface runs its compensations
failBudget ==
  MaxFail + (IF \E t \in Tasks : tk[t].pc = "rc_rollback" THEN MaxRollbackFail ELSE 0)

commandFails ==
  /\ ~runCommandPossible(rt) \/ fails < failBudget
  /\ rt' = rt
  /\ fails' = IF runCommandPossible(rt) THEN fails + 1 ELSE fails

failed(c) == [c EXCEPT !.ok = FALSE]

\* variant: the failure of a runtime op is swallowed and the batch is persisted
runtimeFailed_swallowed(r, c, rollbackPc) ==
  startUpdate([r EXCEPT !.calls = Append(@, failed(c))])

\* what follows a failed runtime op: rollback of what succeeded, then the throw
runtimeFailed(r, c, rollbackPc) ==
  LET e == [r EXCEPT !.calls = Append(@, failed(c)), !.error = "RUNTIME"]
  IN IF Len(r.stack) = 0 THEN done(e, "RUNTIME", NoDetails)
     ELSE [e EXCEPT !.pc = rollbackPc, !.k = Len(r.stack)]

\* applyPeerOperations 319-330: the next scheduled runtime op
apply_runtimeOp(t) ==
  LET r == tk[t]
      op == r.plan.rops[r.k]
      c == runtimeCallOf(op)
      r1 == [r EXCEPT !.stack = Append(@, op), !.calls = Append(@, c), !.k = @ + 1]
  IN /\ r.pc = "run"
     /\ \/ /\ commandRuns(c)
           /\ commit(t, IF r.k = Len(r.plan.rops) THEN startUpdate(r1) ELSE r1)
        \/ /\ commandFails
           /\ commit(t, runtimeFailed(r, c, "rollback"))
     /\ UNCHANGED <<file, lock, nreq, tmpFiles>>

\* one compensating call; its failure is logged and the loop goes on
rollbackStep(t, pc, c) ==
  LET r == tk[t]
      next(call) == [r EXCEPT !.calls = Append(@, call), !.k = @ - 1,
                              !.pc = IF r.k = 1 THEN "done" ELSE pc]
  IN /\ r.pc = pc
     /\ \/ /\ commandRuns(c)
           /\ commit(t, IF r.k = 1 THEN done(next(c), r.error, r.details) ELSE next(c))
        \/ /\ commandFails
           /\ commit(t, IF r.k = 1 THEN done(next(failed(c)), r.error, r.details)
                                   ELSE next(failed(c)))
     /\ UNCHANGED <<file, lock, nreq, tmpFiles>>

\* variant: the rollback stack is walked first-in first-out
rollbackRuntime_fifo(t) ==
  /\ tk[t].pc = "rollback"
  /\ rollbackStep(t, "rollback",
                  rollbackCallOf(tk[t].stack[Len(tk[t].stack) - tk[t].k + 1]))

\* rollbackRuntime 301-316
rollbackRuntime(t) ==
  /\ tk[t].pc = "rollback"
  /\ rollbackStep(t, "rollback", rollbackCallOf(tk[t].stack[tk[t].k]))


toggleCall(isUp) == Call("toggleInterface", "", IF isUp THEN 1 ELSE 0, TRUE)

\* toggleInterfaceState 389: `ip link set <name> up|down`, outside the try block
toggle_runtime(t) ==
  LET r == tk[t]
      c == toggleCall(r.req.isUp)
  IN /\ r.pc = "tg_rt"
     /\ \/ /\ runCommandPossible(rt)
           /\ rt' = toggleInterface(rt, r.req.isUp)
           /\ fails' = fails
           /\ commit(t, startUpdate([r EXCEPT !.calls = Append(@, c)]))
        \/ /\ commandFails
           /\ commit(t, done([r EXCEPT !.calls = Append(@, failed(c))], "RUNTIME", NoDetails))
     /\ UNCHANGED <<file, lock, nreq, tmpFiles>>

\* toggleInterfaceState 415-420: toggle back to !input.isUp, failure swallowed
toggle_rollback(t) ==
  LET r == tk[t]
      c == toggleCall(~r.req.isUp)
  IN /\ r.pc = "tg_back"
     /\ \/ /\ runCommandPossible(rt)
           /\ rt' = toggleInterface(rt, ~r.req.isUp)
           /\ fails' = fails
           /\ commit(t, done([r EXCEPT !.calls = Append(@, c)], r.error, r.details))
        \/ /\ commandFails
           /\ commit(t, done([r EXCEPT !.calls = Append(@, failed(c))], r.error, r.details))
     /\ UNCHANGED <<file, lock, nreq, tmpFiles>>

\* reconcileInterface 444: the runtime peers are read, the drift computed
reconcile_read(t) ==
  /\ tk[t].pc = "rc_read"
  /\ commit(t, reconcileAfterRead(tk[t], getInterfacePeers(rt)))
  /\ UNCHANGED <<file, lock, rt, nreq, fails, tmpFiles>>

\* reconcileInterface 457-476: the next fix of mode state_to_runtime
reconcile_fix(t) ==
  LET r == tk[t]
      op == r.plan.rops[r.k]
      c == runtimeCallOf(op)
      r1 == [r EXCEPT !.stack = Append(@, op), !.calls = Append(@, c),
                      !.fixed = @ + 1, !.k = @ + 1]
  IN /\ r.pc = "rc_fix"
     /\ \/ /\ commandRuns(c)
           /\ commit(t, IF r.k = Len(r.plan.rops) THEN startUpdate(r1) ELSE r1)
        \/ /\ commandFails
           /\ commit(t, runtimeFailed(r, c, "rc_rollback"))
     /\ UNCHANGED <<file, lock, nreq, tmpFiles>>

\* variant: the rollback stack of the reconciliation is walked first-in first-out
reconcile_rollback_fifo(t) ==
  /\ tk[t].pc = "rc_rollback"
  /\ rollbackStep(t, "rc_rollback",
                  reconcileRollbackCallOf(tk[t].stack[Len(tk[t].stack) - tk[t].k + 1]))

\* reconcileInterface 478-490
reconcile_rollback(t) ==
  /\ tk[t].pc = "rc_rollback"
  /\ rollbackStep(t, "rc_rollback", reconcileRollbackCallOf(tk[t].stack[tk[t].k]))

\* upInterface, step 1: `ip link add <name> type wireguard` when the device is missing
deploy_link(t) ==
  LET r == tk[t]
  IN /\ r.pc = "dp_link"
     /\ \/ /\ rt.exists
           /\ rt' = rt
           /\ fails' = fails
           /\ commit(t, [r EXCEPT !.pc = "dp_conf"])
        \/ /\ ~rt.exists
           /\ rt' = [exists |-> TRUE, isUp |-> FALSE, peers |-> [k \in Keys |-> Absent]]
           /\ fails' = fails
           /\ commit(t, [r EXCEPT !.pc = "dp_conf"])
        \/ /\ ~rt.exists
           /\ fails < MaxFail
           /\ fails' = fails + 1
           /\ rt' = rt
           /\ commit(t, done(r, "RUNTIME", NoDetails))
     /\ UNCHANGED <<file, lock, nreq, tmpFiles>>

\* upInterface, steps 2-4: private key and port, address, link up
deploy_conf(t) ==
  LET r == tk[t]
      c == toggleCall(TRUE)
  IN /\ r.pc = "dp_conf"
     /\ \/ /\ runCommandPossible(rt)
           /\ rt' = toggleInterface(rt, TRUE)
           /\ fails' = fails
           /\ commit(t, [r EXCEPT !.calls = Append(@, c), !.pc = "dp_read"])
        \/ /\ commandFails
           /\ commit(t, done([r EXCEPT !.calls = Append(@, failed(c))], "RUNTIME", NoDetails))
     /\ UNCHANGED <<file, lock, nreq, tmpFiles>>

\* deployMeshConfig 618: the runtime peers to purge
deploy_read(t) ==
  /\ tk[t].pc = "dp_read"
  /\ commit(t, deployAfterRead(tk[t], getInterfacePeers(rt)))
  /\ UNCHANGED <<file, lock, rt, nreq, fails, tmpFiles>>

\* deployMeshConfig 619-621
deploy_purge(t) ==
  LET r == tk[t]
      c == Call("removePeer", r.rtPeers[r.k].publicKey, Absent, TRUE)
      r1 == [r EXCEPT !.calls = Append(@, c), !.k = @ + 1]
  IN /\ r.pc = "dp_purge"
     /\ \/ /\ commandRuns(c)
           /\ commit(t, IF r.k = Len(r.rtPeers) THEN deployAfterPurge(r1) ELSE r1)
        \/ /\ commandFails
           /\ commit(t, done([r EXCEPT !.calls = Append(@, failed(c))], "RUNTIME", NoDetails))
     /\ UNCHANGED <<file, lock, nreq, tmpFiles>>

\* deployMeshConfig 623-627
deploy_add(t) ==
  LET r == tk[t]
      p == newPeers(r.req.peers, r.req.name)[r.k]
      c == Call("addPeer", p.publicKey, p.cfg, TRUE)
      r1 == [r EXCEPT !.calls = Append(@, c), !.k = @ + 1]
  IN /\ r.pc = "dp_add"
     /\ \/ /\ commandRuns(c)
           /\ commit(t, IF r.k = Len(r.req.peers) THEN deployFinish(r1) ELSE r1)
        \/ /\ commandFails
           /\ commit(t, done([r EXCEPT !.calls = Append(@, failed(c))], "RUNTIME", NoDetails))
     /\ UNCHANGED <<file, lock, nreq, tmpFiles>>

\* --------------------------------------------------------------------- Next
Next ==
  \E t \in Tasks :
    \/ Start(t)
    \/ Respond(t)
    \/ acquireLock_create(t)
    \/ acquireLock_read(t)
    \/ acquireLock_retry(t)
    \/ loadWithoutLock(t)
    \/ closure_getInterface(t)
    \/ saveWithoutLock(t)
    \/ releaseLock(t)
    \/ getInterface_probe(t)
    \/ apply_runtimeOp(t)
    \/ rollbackRuntime(t)
    \/ toggle_runtime(t)
    \/ toggle_rollback(t)
    \/ reconcile_read(t)
    \/ reconcile_fix(t)
    \/ reconcile_rollback(t)
    \/ deploy_link(t)
    \/ deploy_conf(t)
    \/ deploy_read(t)
    \/ deploy_purge(t)
    \/ deploy_add(t)

Spec == Init /\ [][Next]_vars


\* =============================================================== properties
Handlers == {"apply", "toggle", "reconcile"}

InCriticalSection(t) == tk[t].pc \in {"cs_load", "cs_iface", "cs_save", "release"}

\* C1: apply, toggle and reconcile called with a revision other than the
\* interface's current one (the persisted one, or 0 of the synthetic record)
\* fail with RevisionConflict{expected: current, received: supplied}, having
\* made no runtime call, no save of the state file and no audit entry.
C1_RevisionConflictChangesNothing ==
  \A t \in Tasks :
    LET r == tk[t]
    IN (/\ r.req.kind \in Handlers
        /\ r.ifaceState.present
        /\ r.ifaceState.revision # r.req.revision)
       => /\ r.pc = "done"
          /\ r.error = "REVISION_CONFLICT"
          /\ r.details = [expected |-> r.ifaceState.revision, received |-> r.req.revision]
          /\ r.calls = <<>>
          /\ r.wrote = 0
          /\ r.pushed = 0
          /\ nreq = 1 => (file = r.file0 /\ rt = r.rt0)

\* a second caller submits the revision the first one has just replaced (S5)
C1_Witness ==
  \E t \in Tasks :
    /\ tk[t].pc = "done"
    /\ tk[t].req.kind = "apply"
    /\ tk[t].error = "REVISION_CONFLICT"
    /\ tk[t].details = [expected |-> 2, received |-> 1]
    /\ file.interfaces[Name].revision = 2

applyOf(r) == r.req.kind = "apply" /\ ~r.req.dryRun

\* the handler's own check of the revision passed
passedCheck(r) == r.ifaceState.present /\ r.ifaceState.revision = r.req.revision

\* C2: of two concurrent non-dry-run applies that both passed the check with
\* the same revision, at most one saves the state file; the other one's peer
\* list is never written (stated as the claim states it; under the stale-lock
\* race of C3 the code lets both save).
C2_OneApplyWins ==
  \A t, u \in Tasks :
    (/\ t # u
     /\ applyOf(tk[t]) /\ applyOf(tk[u])
     /\ passedCheck(tk[t]) /\ passedCheck(tk[u])
     /\ tk[t].req.revision = tk[u].req.revision)
    => ~(tk[t].wrote > 0 /\ tk[u].wrote > 0)

\* C3: at most one caller is between a successful acquireLock and its
\* releaseLock (stated as the claim states it; the code does not keep it).
C3_MutualExclusion ==
  \A t, u \in Tasks : (InCriticalSection(t) /\ InCriticalSection(u)) => t = u

\* the calls of r after its forward calls: the compensations
compensations(r) ==
  LET n == Len(r.stack) + (IF r.error = "RUNTIME" THEN 1 ELSE 0)
  IN SubSeq(r.calls, n + 1, Len(r.calls))

allOk(calls) == \A j \in 1..Len(calls) : calls[j].ok

\* C4: a failed apply with at least one runtime op done, whose compensations all
\* succeed, leaves the runtime peers as they were before the call (stated as
\* the claim states it for a request running alone; the code does not keep it).
C4_RollbackRestoresRuntime ==
  \A t \in Tasks :
    LET r == tk[t]
    IN (/\ nreq = 1
        /\ applyOf(r)
        /\ r.pc = "done"
        /\ r.error # "none"
        /\ Len(r.stack) >= 1
        /\ allOk(compensations(r)))
       => rt.peers = r.rt0.peers

\* the compensation the claim names for one executed op
C5_Compensation(op) ==
  IF op.type = "add" THEN Call("removePeer", op.peer.publicKey, Absent, TRUE)
  ELSE IF op.type = "remove" THEN Call("addPeer", op.peer.publicKey, op.peer.cfg, TRUE)
  ELSE Call("updatePeer", op.previous.publicKey, op.previous.cfg, TRUE)

inputId(o) == IF o.op = "add" THEN o.peer.peerId ELSE o.peerId

\* the peers of the scheduled ops are met in this order in the input
RECURSIVE inInputOrder(_, _)
inInputOrder(rops, operations) ==
  IF rops = <<>> THEN TRUE
  ELSE IF operations = <<>> THEN FALSE
  ELSE IF Head(rops).peer.peerId = inputId(Head(operations))
       THEN inInputOrder(Tail(rops), Tail(operations))
       ELSE inInputOrder(rops, Tail(operations))

\* C5: the runtime ops run in input order and are stacked once they succeeded;
\* a rollback compensates the stacked ops last-in first-out (add by removePeer,
\* remove by addPeer, update by updatePeer of the previous peer); the op that
\* failed and the ops after it are neither executed nor compensated.
C5_InputOrderAndLifoRollback ==
  \A t \in Tasks :
    LET r == tk[t]
        rops == r.plan.rops
        n == Len(r.stack)
        f == IF r.error = "RUNTIME" THEN 1 ELSE 0
    IN applyOf(r) =>
         /\ inInputOrder(rops, r.req.operations)
         /\ n <= Len(rops)
         /\ r.stack = SubSeq(rops, 1, n)
         /\ Len(r.calls) >= n + f
         /\ \A j \in 1..n : r.calls[j] = runtimeCallOf(rops[j])
         /\ f = 1 => (n < Len(rops) /\ r.calls[n + 1] = failed(runtimeCallOf(rops[n + 1])))
         /\ r.pc = "run" => (n = r.k - 1 /\ Len(r.calls) = n)
         /\ r.pc = "rollback" => Len(r.calls) = n + f + (n - r.k)
         /\ (r.pc = "done" /\ r.error # "none") => Len(r.calls) = n + f + n
         /\ (r.pc = "done" /\ r.error = "none") => Len(r.calls) = n
         /\ \A j \in 1..(Len(r.calls) - n - f) :
              [r.calls[n + f + j] EXCEPT !.ok = TRUE] = C5_Compensation(rops[n + 1 - j])

\* the second of two ops fails: the first one is compensated
C5_Witness ==
  \E t \in Tasks :
    /\ tk[t].pc = "done"
    /\ applyOf(tk[t])
    /\ tk[t].error = "RUNTIME"
    /\ Len(tk[t].plan.rops) = 2
    /\ Len(tk[t].stack) = 1
    /\ Len(tk[t].calls) = 3

\* a forward runtime op of r failed
forwardFailed(r) == \E j \in 1..Len(r.calls) : j <= Len(r.plan.rops) /\ ~r.calls[j].ok

\* C6: an apply one of whose runtime ops failed ends in an error, has saved
\* nothing and has pushed no audit entry; running alone, it leaves the state
\* file as it was.
C6_RuntimeFailurePersistsNothing ==
  \A t \in Tasks :
    LET r == tk[t]
    IN (applyOf(r) /\ forwardFailed(r))
       => /\ r.wrote = 0
          /\ r.pushed = 0
          /\ r.pc \in {"rollback", "done"}
          /\ r.error = "RUNTIME"
          /\ ~r.result.ok
          /\ nreq = 1 => file = r.file0

\* the second runtime op fails, the first one is rolled back, the error is thrown
C6_Witness ==
  \E t \in Tasks :
    /\ tk[t].pc = "done"
    /\ applyOf(tk[t])
    /\ forwardFailed(tk[t])
    /\ Len(tk[t].stack) = 1
    /\ tk[t].error = "RUNTIME"
    /\ file = tk[t].file0
    /\ auditStore = <<>>

\* C7: a successful non-dry-run apply saves the interface once, at the supplied
\* revision plus 1, and returns that revision, whatever the number of
\* operations (none of them effective included); running alone, the persisted
\* revision is 1 more than before the call.
C7_ApplyBumpsRevisionByOne ==
  \A t \in Tasks :
    LET r == tk[t]
    IN (applyOf(r) /\ r.pc = "done" /\ r.error = "none")
       => /\ r.result.ok
          /\ r.result.revision = r.req.revision + 1
          /\ r.wrote = 1
          /\ r.savedRev = r.req.revision + 1
          /\ nreq = 1 => file.interfaces[Name].revision = r.file0.interfaces[Name].revision + 1

\* a two-op batch and a batch whose only op is skipped both end at revision 2
C7_Witness ==
  /\ \E t \in Tasks :
       /\ tk[t].pc = "done" /\ applyOf(tk[t]) /\ tk[t].error = "none"
       /\ tk[t].plan.alog = <<>>
       /\ Len(tk[t].req.operations) = 1
       /\ tk[t].result.revision = 1
  /\ \E t \in Tasks :
       /\ tk[t].pc = "done" /\ applyOf(tk[t]) /\ tk[t].error = "none"
       /\ Len(tk[t].plan.alog) = 2
       /\ tk[t].result.revision = 2
  /\ file.interfaces[Name].revision = 2

\* C8: a step that changes the persisted record of the interface (its creation
\* included) or its peers raises its revision by exactly 1 (stated as the
\* claim states it; reconcile creates the record without raising it).
C8_ChangeBumpsRevision ==
  [][(\/ file'.interfaces[Name] # file.interfaces[Name]
      \/ getPeersForInterface(file', Name) # getPeersForInterface(file, Name))
     => file'.interfaces[Name].revision = file.interfaces[Name].revision + 1]_vars

\* C9: the persisted revision of the interface never decreases and its record,
\* once persisted, is never removed (stated as the claim states it; under the
\* stale-lock race of C3 a late writer saves an older revision).
C9_RevisionNeverDecreases ==
  [][/\ file'.interfaces[Name].revision >= file.interfaces[Name].revision
     /\ file.interfaces[Name].present => file'.interfaces[Name].present]_vars

\* C10: a dry-run apply makes no runtime call, never enters update and pushes
\* no audit entry; it returns dryRun, the current revision and that plus 1.
C10_DryRunChangesNothing ==
  \A t \in Tasks :
    LET r == tk[t]
    IN (r.req.kind = "apply" /\ r.req.dryRun)
       => /\ r.calls = <<>>
          /\ r.wrote = 0
          /\ r.pushed = 0
          /\ r.phase = "load"
          /\ nreq = 1 => (file = r.file0 /\ rt = r.rt0 /\ auditStore = <<>>)
          /\ (r.pc = "done" /\ r.error = "none")
             => /\ r.result.ok /\ r.result.dryRun
                /\ r.result.currentRevision = r.req.revision
                /\ r.result.currentRevision = r.ifaceState.revision
                /\ r.result.nextRevision = r.result.currentRevision + 1

C10_Witness ==
  \E t \in Tasks :
    /\ tk[t].pc = "done"
    /\ tk[t].req.kind = "apply" /\ tk[t].req.dryRun
    /\ tk[t].error = "none"
    /\ Len(tk[t].plan.rops) = 2
    /\ tk[t].result.dryRun
    /\ tk[t].result.currentRevision = 1
    /\ tk[t].result.nextRevision = 2
    /\ file = ManagedState

\* the runtime after these calls, all of them succeeding
RECURSIVE afterCalls(_, _)
afterCalls(r, rops) ==
  IF rops = <<>> THEN r ELSE afterCalls(execCall(r, runtimeCallOf(Head(rops))), Tail(rops))

\* every runtime op of r succeeded and its update() then failed
persistFailed(r) ==
  /\ applyOf(r)
  /\ r.pc = "done"
  /\ r.error \notin {"none", "RUNTIME"}
  /\ Len(r.plan.rops) >= 1
  /\ Len(r.stack) = Len(r.plan.rops)

AtAdapterCall(t) ==
  tk[t].pc \in {"cs_iface", "get_iface", "run", "rollback", "tg_rt", "tg_back",
                "rc_read", "rc_fix", "rc_rollback",
                "dp_link", "dp_conf", "dp_read", "dp_purge", "dp_add"}

\* C12: no handler is inside load()/update(), holding the state-store lock,
\* while one of its runtime-adapter calls is in progress (stated as the claim
\* states it; the update closures probe the runtime for an absent record).
C12_NoAdapterCallUnderLock ==
  \A t \in Tasks : ~(InCriticalSection(t) /\ AtAdapterCall(t))

\* a finished apply, toggle or reconcile call whose target had no record in
\* the state file when it arrived, and that ran alone
onUnmanaged(t) ==
  /\ nreq = 1
  /\ tk[t].pc = "done"
  /\ tk[t].req.kind \in {"apply", "toggle", "reconcile"}
  /\ ~tk[t].file0.interfaces[tk[t].req.name].present

\* the call returned and has changed the peers, the link or the runtime
mutated(r) ==
  /\ r.error = "none"
  /\ ~r.req.dryRun
  /\ r.req.kind = "reconcile" => r.fixed > 0

MaxDeploys == 3

\* deployMeshConfig is called
StartDeploy(t) ==
  /\ tk[t].pc = "idle"
  /\ \A u \in Earlier(t) : tk[u].pc # "idle"
  /\ nreq < MaxDeploys
  /\ nreq' = nreq + 1
  /\ \E req \in DeployRequests :
       commit(t, [IdleTask EXCEPT !.req = req, !.pc = "acq_create", !.phase = "update",
                                  !.rt0 = rt, !.file0 = file])
  /\ UNCHANGED <<file, lock, rt, fails, tmpFiles>>

NextDeploys ==
  \E t \in Tasks :
    \/ StartDeploy(t)
    \/ Respond(t)
    \/ acquireLock_create(t)
    \/ acquireLock_read(t)
    \/ acquireLock_retry(t)
    \/ loadWithoutLock(t)
    \/ saveWithoutLock(t)
    \/ releaseLock(t)
    \/ deploy_link(t)
    \/ deploy_conf(t)
    \/ deploy_read(t)
    \/ deploy_purge(t)
    \/ deploy_add(t)

SpecDeploys == Init /\ [][NextDeploys]_vars

\* ------------------------------------- the lock alone: callers of load() only
\* a dry-run request arrives: its handler calls load() and never update()
StartDryRun(t) ==
  /\ tk[t].pc = "idle"
  /\ \A u \in Earlier(t) : tk[u].pc # "idle"
  /\ nreq < MaxReqs
  /\ nreq' = nreq + 1
  /\ \E req \in {q \in Requests : q.dryRun} :
       commit(t, [IdleTask EXCEPT !.req = req, !.pc = "acq_create", !.phase = "load",
                                  !.rt0 = rt, !.file0 = file])
  /\ UNCHANGED <<file, lock, rt, fails, tmpFiles>>

\* time passes: the lock a dead process left is now older than 5 s
lockAges ==
  /\ lock = DeadFresh
  /\ lock' = DeadOld
  /\ UNCHANGED <<file, rt, auditStore, tk, nreq, fails, tmpFiles>>

\* what the event loop runs for task t once its pending I/O or timer is done
LockStep(t) ==
  \/ acquireLock_create(t)
  \/ acquireLock_read(t)
  \/ acquireLock_retry(t)
  \/ loadWithoutLock(t)
  \/ releaseLock(t)
  \/ getInterface_probe(t)
  \/ Respond(t)

InitLock ==
  /\ \E w \in InitialWorlds : file = w[1] /\ rt = w[2]
  /\ lock \in {NoLock, DeadFresh, DeadOld}
  /\ auditStore = <<>>
  /\ tk = [t \in Tasks |-> IdleTask]
  /\ nreq = 0
  /\ fails = 0
  /\ tmpFiles = NoTemps

NextLock ==
  \/ lockAges
  \/ \E t \in Tasks :
       \/ StartDryRun(t)
       \/ LockStep(t)

\* every started continuation is eventually run; nothing is assumed of the clock
SpecLock == InitLock /\ [][NextLock]_vars /\ \A t \in Tasks : WF_vars(LockStep(t))

InAcquireLock(t) == tk[t].pc \in {"acq_create", "acq_read", "acq_decide"}

\* C13: an acquirer unlinks an existing lock file only if that lock is older
\* than 5 s and its pid is dead; a lock of a live process or a lock younger
\* than 5 s is never unlinked by an acquirer (stated as the claim states it;
\* the acquirer unlinks whatever file is there when its unlink runs).
C13_OnlyStaleLocksUnlinked ==
  [][\A t \in Tasks :
       (/\ tk[t].pc = "acq_decide"
        /\ tk'[t] # tk[t]
        /\ lock # NoLock
        /\ lock' = NoLock)
       => lock = DeadOld]_vars

\* C14: acquireLock terminates: it makes at most `retries` attempts, an attempt
\* that finds no lock file acquires the lock, and a caller in acquireLock
\* eventually holds the lock or has given up with the lock-timeout error.
C14_AcquireLockTerminates ==
  /\ [](\A t \in Tasks : tk[t].i <= MaxRetries /\ (InAcquireLock(t) => tk[t].i < MaxRetries))
  /\ [][\A t \in Tasks :
          (tk[t].pc = "acq_create" /\ tk'[t] # tk[t] /\ lock = NoLock)
          => (tk'[t].pc = "cs_load" /\ lock' = t)]_vars
  /\ \A t \in Tasks :
       InAcquireLock(t) ~> (tk[t].pc = "cs_load" \/ tk[t].error = "LOCK_TIMEOUT")

\* one caller holds the lock while the other has used up its retries
C14_Witness ==
  \E t, u \in Tasks :
    /\ tk[t].pc = "done" /\ tk[t].error = "LOCK_TIMEOUT"
    /\ tk[u].pc = "cs_load" /\ lock = u

\* C15: two concurrent update() calls that both complete are serialized: the
\* second closure runs on the document the first one saved, so after two
\* deployments the revision has grown by 2 (stated as the claim states it;
\* under the stale-lock race of C3 both closures run on the same document).
C15_UpdatesSerialize ==
  (/\ nreq = 2
   /\ \A t \in Tasks : tk[t].req.kind = "deploy" /\ tk[t].wrote = 1)
  => file.interfaces[Name].revision = tk["t1"].file0.interfaces[Name].revision + 2

\* --------------------------------- the save, step by step: deployments only
\* what a file holds is a complete document, or it is empty or torn
completeDocument(c) == c \notin {NoFile, Truncated, Torn}

\* handle.writeFile(doc) at offset 0 of a file holding `old`: a file that held
\* another text keeps what the new text does not cover
written(old, doc) == IF old \in {Truncated, doc} THEN {doc} ELSE {doc, Torn}

\* the open handles follow their inode when `tempFile` c is renamed over the
\* state file or unlinked
inodeMoved(u, c, to) ==
  IF u.handle = "temp" /\ u.tempFile = c THEN [u EXCEPT !.handle = to]
  ELSE IF u.handle = "state" /\ to = "state" THEN [u EXCEPT !.handle = "orphan"]
  ELSE u

\* a step of _saveWithoutLock threw: control is in its catch block
saveThrew(r, step) == [r EXCEPT !.pc = "sv_catch", !.threw = step]

\* _loadWithoutLock: JSON.parse or the schema rejects a file that is not a document
loadStateFile(t) ==
  IF completeDocument(file)
  THEN loadWithoutLock(t)
  ELSE /\ tk[t].pc = "cs_load"
       /\ commit(t, [tk[t] EXCEPT !.pc = "release", !.error = "CORRUPT_STATE"])
       /\ UNCHANGED <<file, lock, rt, nreq, fails, tmpFiles>>

\* tempFile = `${filePath}.tmp.${Date.now()}`; fs.open(tempFile, "w") creates
\* the file or truncates the one of that name; the clock never runs backwards
save_open(t) ==
  LET r == tk[t]
  IN /\ r.pc = "cs_save"
     /\ \E now \in Clock :
          /\ \A u \in Tasks : tk[u].tempFile <= now
          /\ \/ /\ tmpFiles' = [tmpFiles EXCEPT ![now] = Truncated]
                /\ fails' = fails
                /\ commit(t, [r EXCEPT !.pc = "sv_write", !.tempFile = now,
                                        !.handle = "temp"])
             \/ /\ fails < MaxFail
                /\ fails' = fails + 1
                /\ tmpFiles' = tmpFiles
                /\ commit(t, saveThrew([r EXCEPT !.tempFile = now], "open"))
     /\ UNCHANGED <<file, lock, rt, nreq>>

\* handle.writeFile(JSON.stringify(state)): the text goes where the inode is
save_write(t) ==
  LET r == tk[t]
      old == IF r.handle = "temp" THEN tmpFiles[r.tempFile] ELSE file
  IN /\ r.pc = "sv_write"
     /\ \E ok \in BOOLEAN :
          /\ ok \/ fails < MaxFail
          /\ fails' = IF ok THEN fails ELSE fails + 1
          /\ \E c \in IF ok THEN written(old, r.loaded) ELSE {Torn} :
               /\ tmpFiles' = IF r.handle = "temp"
                              THEN [tmpFiles EXCEPT ![r.tempFile] = c] ELSE tmpFiles
               /\ file' = IF r.handle = "state" THEN c ELSE file
          /\ commit(t, IF ok THEN [r EXCEPT !.pc = "sv_sync"] ELSE saveThrew(r, "write"))
     /\ UNCHANGED <<lock, rt, nreq>>

\* handle.sync()
save_sync(t) ==
  LET r == tk[t]
  IN /\ r.pc = "sv_sync"
     /\ \/ /\ fails' = fails
           /\ commit(t, [r EXCEPT !.pc = "sv_close"])
        \/ /\ fails < MaxFail
           /\ fails' = fails + 1
           /\ commit(t, saveThrew(r, "sync"))
     /\ UNCHANGED <<file, lock, rt, nreq, tmpFiles>>

\* handle.close()
save_close(t) ==
  LET r == tk[t]
  IN /\ r.pc = "sv_close"
     /\ \/ /\ fails' = fails
           /\ commit(t, [r EXCEPT !.pc = "sv_rename", !.handle = "none"])
        \/ /\ fails < MaxFail
           /\ fails' = fails + 1
           /\ commit(t, saveThrew(r, "close"))
     /\ UNCHANGED <<file, lock, rt, nreq, tmpFiles>>

\* fs.rename(tempFile, filePath): whatever the temp file holds replaces the
\* state file; ENOENT when the temp file is gone
save_rename(t) ==
  LET r == tk[t]
      c == r.tempFile
  IN /\ r.pc = "sv_rename"
     /\ \/ /\ tmpFiles[c] # NoFile
           /\ file' = tmpFiles[c]
           /\ tmpFiles' = [tmpFiles EXCEPT ![c] = NoFile]
           /\ fails' = fails
           /\ tk' = [u \in Tasks |->
                       IF u = t THEN [r EXCEPT !.pc = "sv_dirsync"]
                       ELSE inodeMoved(tk[u], c, "state")]
        \/ /\ tmpFiles[c] = NoFile \/ fails < MaxFail
           /\ fails' = IF tmpFiles[c] = NoFile THEN fails ELSE fails + 1
           /\ tk' = [tk EXCEPT ![t] = saveThrew(r, "rename")]
           /\ UNCHANGED <<file, tmpFiles>>
     /\ UNCHANGED <<lock, rt, auditStore, nreq>>

\* open, sync and close of the directory: their errors are ignored; the save
\* has returned
save_dirsync(t) ==
  LET r == tk[t]
  IN /\ r.pc = "sv_dirsync"
     /\ \/ fails' = fails
        \/ fails < MaxFail /\ fails' = fails + 1
     /\ commit(t, [r EXCEPT !.pc = "release", !.wrote = @ + 1, !.loaded = EmptyState,
                             !.savedRev = r.loaded.interfaces[r.req.name].revision])
     /\ UNCHANGED <<file, lock, rt, nreq, tmpFiles>>

\* catch: fs.unlink(tempFile), its error ignored; then the error is rethrown
save_catch(t) ==
  LET r == tk[t]
      c == r.tempFile
  IN /\ r.pc = "sv_catch"
     /\ tmpFiles' = [tmpFiles EXCEPT ![c] = NoFile]
     /\ tk' = [u \in Tasks |->
                 IF u = t THEN [r EXCEPT !.pc = "release", !.error = "SAVE_FAILED",
                                         !.loaded = EmptyState]
                 ELSE inodeMoved(tk[u], c, "orphan")]
     /\ UNCHANGED <<file, lock, rt, auditStore, nreq, fails>>

\* deployMeshConfig is called, MaxReqs times at most
StartSave(t) ==
  /\ nreq < MaxReqs
  /\ StartDeploy(t)

NextSave ==
  \E t \in Tasks :
    \/ StartSave(t)
    \/ Respond(t)
    \/ acquireLock_create(t)
    \/ acquireLock_read(t)
    \/ acquireLock_retry(t)
    \/ loadStateFile(t)
    \/ save_open(t)
    \/ save_write(t)
    \/ save_sync(t)
    \/ save_close(t)
    \/ save_rename(t)
    \/ save_dirsync(t)
    \/ save_catch(t)
    \/ releaseLock(t)
    \/ deploy_link(t)
    \/ deploy_conf(t)
    \/ deploy_read(t)
    \/ deploy_purge(t)
    \/ deploy_add(t)

SpecSave == Init /\ [][NextSave]_vars

\* C16: at every point during and after a save the state file path holds a
\* complete document, never a partial one; and when a step of the save throws,
\* the temp file is unlinked and the error reaches the caller of update()
\* (stated as the claim states it; two callers that the stale-lock race of C3
\* lets save together can name their temp file alike).
C16_SaveIsAtomic ==
  /\ [](completeDocument(file))
  /\ [][\A t \in Tasks :
          (tk[t].pc # "release" /\ tk'[t].pc = "release" /\ tk'[t].threw # "none")
          => (tk'[t].error = "SAVE_FAILED" /\ tmpFiles'[tk'[t].tempFile] = NoFile)]_vars

\* ------------------------------- reconciliations only, on more state files
\* and devices: a peer missing from runtime, an inactive peer, a peer of
\* another interface with a runtime key, every set of runtime peers
ReconcileWorlds ==
  {<<st, dev>> :
     st \in {ManagedState, [ManagedState EXCEPT !.peers = <<P1, P4, Q1>>],
             [ManagedState EXCEPT !.peers = <<P2, P3, Q1>>], UnmanagedState},
     dev \in {RuntimeWith(ks) : ks \in SUBSET Keys} \cup {NoDevice}}

InitReconcile ==
  /\ \E w \in ReconcileWorlds : file = w[1] /\ rt = w[2]
  /\ lock \in {NoLock, DeadOld}
  /\ auditStore = <<>>
  /\ tk = [t \in Tasks |-> IdleTask]
  /\ nreq = 0
  /\ fails = 0
  /\ tmpFiles = NoTemps

\* reconcileInterface is called
StartReconcile(t) ==
  /\ tk[t].pc = "idle"
  /\ \A u \in Earlier(t) : tk[u].pc # "idle"
  /\ nreq < MaxReqs
  /\ nreq' = nreq + 1
  /\ \E req \in ReconcileRequests :
       commit(t, [IdleTask EXCEPT !.req = req, !.pc = "acq_create", !.phase = "load",
                                  !.rt0 = rt, !.file0 = file])
  /\ UNCHANGED <<file, lock, rt, fails, tmpFiles>>

NextReconcile ==
  \E t \in Tasks :
    \/ StartReconcile(t)
    \/ Respond(t)
    \/ acquireLock_create(t)
    \/ acquireLock_read(t)
    \/ acquireLock_retry(t)
    \/ loadWithoutLock(t)
    \/ closure_getInterface(t)
    \/ saveWithoutLock(t)
    \/ releaseLock(t)
    \/ getInterface_probe(t)
    \/ reconcile_read(t)
    \/ reconcile_fix(t)
    \/ reconcile_rollback(t)

SpecReconcile == InitReconcile /\ [][NextReconcile]_vars

\* a finished reconcileInterface call of the given mode that ran alone
reconcileOf(t, mode) ==
  /\ nreq = 1
  /\ tk[t].pc = "done"
  /\ tk[t].req.kind = "reconcile"
  /\ tk[t].req.mode = mode

\* the keys of the runtime peers when the call arrived
runtimeKeys0(r) == {k \in Keys : r.rt0.exists /\ r.rt0.peers[k] # Absent}

\* the revision the call had to supply
revision0(r) ==
  IF r.file0.interfaces[r.req.name].present THEN r.file0.interfaces[r.req.name].revision
  ELSE 0

\* C18: reconcileInterface in mode runtime_to_state makes no runtime call, and
\* after it succeeds with revision r: each managed peer that was active with a
\* key not seen in runtime is inactive, every other managed peer is unchanged,
\* each runtime key that no managed peer had has exactly one new active peer
\* (fresh id, name "runtime-" + the first 8 characters of the key), and the
\* revision is r + 1 if one of these changes was made and r otherwise.
C18_RuntimeToState ==
  \A t \in Tasks :
    reconcileOf(t, "runtime_to_state") =>
      LET r == tk[t]
          name == r.req.name
          before == getPeersForInterface(r.file0, name)
          after == getPeersForInterface(file, name)
          n == Len(before)
          unseen(p) == p.isActive /\ p.publicKey \notin runtimeKeys0(r)
          fresh == runtimeKeys0(r) \ keysOf(before)
          made == (\E j \in 1..n : unseen(before[j])) \/ fresh # {}
          next == revision0(r) + (IF made THEN 1 ELSE 0)
      IN /\ r.calls = <<>>
         /\ rt = r.rt0
         /\ r.error = "none" =>
              /\ r.req.revision = revision0(r)
              /\ Len(after) = n + Cardinality(fresh)
              /\ \A j \in 1..n :
                   after[j] = IF unseen(before[j]) THEN [before[j] EXCEPT !.isActive = FALSE]
                              ELSE before[j]
              /\ \A k \in fresh :
                   Cardinality({j \in (n + 1)..Len(after) : after[j].publicKey = k}) = 1
              /\ \A j \in (n + 1)..Len(after) :
                   /\ after[j].publicKey \in fresh
                   /\ after[j].isActive
                   /\ after[j].interface = name
                   /\ after[j].name = "runtime-" \o slice8[after[j].publicKey]
                   /\ after[j].cfg = r.rt0.peers[after[j].publicKey]
                   /\ \A i \in 1..Len(r.file0.peers) : r.file0.peers[i].peerId # after[j].peerId
                   /\ \A i \in (n + 1)..Len(after) : after[i].peerId = after[j].peerId => i = j
              /\ otherPeers(file, name) = otherPeers(r.file0, name)
              /\ file.interfaces[name].present
              /\ file.interfaces[name].revision = next
              /\ r.result.revision = next

\* a reconciliation has deactivated a peer and taken a runtime peer into the state
C18_Witness ==
  \E t \in Tasks :
    /\ reconcileOf(t, "runtime_to_state")
    /\ tk[t].error = "none"
    /\ \E p \in {P1, P2} :
         /\ p.publicKey \notin runtimeKeys0(tk[t])
         /\ \E j \in 1..Len(file.peers) : file.peers[j] = [p EXCEPT !.isActive = FALSE]
    /\ \E j \in 1..Len(file.peers) : file.peers[j].name = "runtime-bbbbbbbb"

\* C19: a successful reconcileInterface in mode state_to_runtime adds to runtime
\* exactly the managed peers that are active and missing from runtime and
\* removes exactly the runtime peers whose key no managed peer has; the
\* persisted peer list is unchanged and the revision grows by 1 if and only if
\* at least one runtime fix was made.
C19_StateToRuntime ==
  \A t \in Tasks :
    (reconcileOf(t, "state_to_runtime") /\ tk[t].error = "none") =>
      LET r == tk[t]
          name == r.req.name
          managed == getPeersForInterface(r.file0, name)
          missing == {j \in 1..Len(managed) :
                        managed[j].isActive /\ managed[j].publicKey \notin runtimeKeys0(r)}
          zombies == runtimeKeys0(r) \ keysOf(managed)
          adds == {j \in 1..Len(r.calls) : r.calls[j].fn = "addPeer"}
          removes == {j \in 1..Len(r.calls) : r.calls[j].fn = "removePeer"}
          next == revision0(r) + (IF missing # {} \/ zombies # {} THEN 1 ELSE 0)
      IN /\ adds \cup removes = 1..Len(r.calls)
         /\ \A j \in 1..Len(r.calls) : r.calls[j].ok
         /\ Cardinality(adds) = Cardinality(missing)
         /\ \A j \in missing :
              \E i \in adds : /\ r.calls[i].publicKey = managed[j].publicKey
                              /\ r.calls[i].cfg = managed[j].cfg
         /\ Cardinality(removes) = Cardinality(zombies)
         /\ {r.calls[j].publicKey : j \in removes} = zombies
         /\ rt.exists /\ rt.isUp = r.rt0.isUp
         /\ \A k \in Keys :
              rt.peers[k] = IF k \in zombies THEN Absent
                            ELSE IF \E j \in missing : managed[j].publicKey = k
                            THEN (CHOOSE c \in {managed[j].cfg : j \in missing} : TRUE)
                            ELSE r.rt0.peers[k]
         /\ file.peers = r.file0.peers
         /\ file.interfaces[name].revision = next
         /\ r.result.revision = next
         /\ r.fixed = Cardinality(missing) + Cardinality(zombies)

\* a reconciliation has added a missing peer to runtime and removed a zombie
C19_Witness ==
  \E t \in Tasks :
    /\ reconcileOf(t, "state_to_runtime")
    /\ tk[t].error = "none"
    /\ Len(tk[t].calls) = 2
    /\ tk[t].calls[1].fn = "addPeer"
    /\ tk[t].calls[2].fn = "removePeer"
    /\ file.interfaces[Name].revision = 2

\* C20: a non-dry-run toggleInterfaceState first toggles the runtime link and
\* then persists isUp with a revision bump; if the state update fails, the link
\* is toggled back to the state it had before the call, also when the requested
\* isUp equals that state; a failure of that rollback is swallowed and the
\* original error is the one raised (stated as the claim states it; the
\* rollback sets the link to !input.isUp).
C20_ToggleRollsBack ==
  \A t \in Tasks :
    LET r == tk[t]
    IN (/\ nreq = 1
        /\ r.pc = "done"
        /\ r.req.kind = "toggle"
        /\ ~r.req.dryRun
        /\ Len(r.calls) >= 1
        /\ r.calls[1].ok)
       => /\ r.calls[1] = toggleCall(r.req.isUp)
          /\ r.error = "none" =>
               /\ r.wrote = 1 /\ Len(r.calls) = 1
               /\ file.interfaces[r.req.name].isUp = r.req.isUp
               /\ file.interfaces[r.req.name].revision = r.req.revision + 1
          /\ r.error # "none" =>
               /\ r.wrote = 0 /\ Len(r.calls) = 2
               /\ r.error # "RUNTIME"
               /\ r.calls[2].ok => rt.isUp = r.rt0.isUp

\* deployMeshConfig is past its update() and at or after its first runtime call
deployInRuntime(r) ==
  /\ r.req.kind = "deploy"
  /\ r.pc \in {"dp_link", "dp_conf", "dp_read", "dp_purge", "dp_add"} \/ r.calls # <<>>

\* C21: after a successful deployMeshConfig the record of the interface has the
\* previous revision + 1 (1 if there was none) and isUp = true, the persisted
\* peers of the interface are exactly the supplied peers, all active, the peers
\* of other interfaces are unchanged, and the runtime peers are exactly the
\* supplied keys (every earlier runtime peer was purged); the state is persisted
\* before any runtime call is made.
C21_DeployReplaces ==
  \A t \in Tasks :
    LET r == tk[t]
        name == r.req.name
        supplied == r.req.peers
        mine == getPeersForInterface(file, name)
    IN /\ deployInRuntime(r) => r.wrote = 1
       /\ (nreq = 1 /\ r.pc = "done" /\ r.req.kind = "deploy" /\ r.error = "none") =>
            /\ file.interfaces[name] =
                 [present |-> TRUE, revision |-> revision0(r) + 1, isUp |-> TRUE]
            /\ Len(mine) = Len(supplied)
            /\ \A j \in 1..Len(mine) :
                 /\ mine[j].publicKey = supplied[j].publicKey
                 /\ mine[j].cfg = supplied[j].cfg
                 /\ mine[j].isActive
                 /\ mine[j].interface = name
            /\ otherPeers(file, name) = otherPeers(r.file0, name)
            /\ rt.exists /\ rt.isUp
            /\ \A k \in Keys :
                 rt.peers[k] = IF \E j \in 1..Len(supplied) : supplied[j].publicKey = k
                               THEN (CHOOSE c \in {supplied[j].cfg : j \in 1..Len(supplied)} : TRUE)
                               ELSE Absent

\* a deployment has replaced the managed peer and purged the runtime peer k1
C21_Witness ==
  \E t \in Tasks :
    /\ nreq = 1 /\ tk[t].pc = "done" /\ tk[t].req.kind = "deploy" /\ tk[t].error = "none"
    /\ tk[t].req.peers = <<D1>>
    /\ tk[t].rt0.exists /\ tk[t].rt0.peers["k1"] # Absent
    /\ tk[t].file0.interfaces[Name].present
    /\ rt.peers["k1"] = Absent /\ rt.peers["k2"] # Absent
    /\ file.interfaces[Name].revision = 2

\* ------------- applyPeerOperations as a function of the loaded state: the
\* loop over the operations, the dry-run answer, the closure; no I/O fails
MaxOps == 2

\* the operations: on active and inactive peers, on the peer a batch has just
\* added, on a peer of the other interface, on an unknown peer
PlanOps ==
  {opAdd(P2), opAdd(P3), opAdd(P4),
   opUpdate("p1", 1), opUpdate("p2", 1), opUpdate("p4", 1), opUpdate("p7", 1),
   opToggle("p1", FALSE), opToggle("p4", TRUE), opToggle("q1", FALSE), opToggle("p7", TRUE),
   opRemove("p1"), opRemove("p2"), opRemove("p4"), opRemove("p7")}

PlanBatches == UNION {[1..n -> PlanOps] : n \in 1..MaxOps}

BothManaged == [n \in IfaceNames |-> [present |-> TRUE, revision |-> 1, isUp |-> TRUE]]

PlanStates ==
  {[interfaces |-> BothManaged, peers |-> ps] :
     ps \in {<<P1, Q1, P4>>, <<Q1, P2, P3>>, <<>>}}

\* the handler has loaded the state and is about to run its loop
planning(req, state) ==
  [IdleTask EXCEPT !.req = req, !.pc = "pl_loop", !.k = 1, !.file0 = state,
                   !.ifaceState = state.interfaces[req.name],
                   !.plan = EmptyPlan(getPeersForInterface(state, req.name))]

InitPlan ==
  /\ file \in PlanStates
  /\ \E n \in IfaceNames, b \in PlanBatches, d \in BOOLEAN :
       tk = [t \in Tasks |->
               IF t = "t1"
               THEN planning([NoReq EXCEPT !.kind = "apply", !.name = n, !.operations = b,
                                           !.dryRun = d,
                                           !.revision = file.interfaces[n].revision], file)
               ELSE IdleTask]
  /\ rt = NoDevice
  /\ lock = NoLock
  /\ auditStore = <<>>
  /\ nreq = 1
  /\ fails = 0
  /\ tmpFiles = NoTemps

\* one iteration of `for (const operation of input.operations)`
plan_operation(t) ==
  LET r == tk[t]
  IN /\ r.pc = "pl_loop"
     /\ r.k <= Len(r.req.operations)
     /\ commit(t, [r EXCEPT !.plan = planStep(@, r.req.name, r.req.operations[r.k]),
                            !.k = @ + 1])
     /\ UNCHANGED <<file, lock, rt, nreq, fails, tmpFiles>>

\* the loop is over and input.dryRun is set: the plan is returned
plan_dryRun(t) ==
  LET r == tk[t]
  IN /\ r.pc = "pl_loop"
     /\ r.k > Len(r.req.operations)
     /\ r.req.dryRun
     /\ commit(t, [done(r, "none", NoDetails) EXCEPT
                     !.result = [NoResult EXCEPT !.ok = TRUE, !.dryRun = TRUE,
                                                 !.currentRevision = r.ifaceState.revision,
                                                 !.nextRevision = r.ifaceState.revision + 1,
                                                 !.plan = dryRunPlan(r.plan.rops, r.req.name),
                                                 !.summary = summaryOf(r.plan)]])
     /\ UNCHANGED <<file, lock, rt, nreq, fails, tmpFiles>>

\* the loop is over: the closure runs on the state file and its result is saved
plan_persist(t) ==
  LET r == tk[t]
      c == applyClosure(r, file)
  IN /\ r.pc = "pl_loop"
     /\ r.k > Len(r.req.operations)
     /\ ~r.req.dryRun
     /\ file' = c.loaded
     /\ commit(t, afterUpdate([c EXCEPT !.wrote = 1, !.loaded = EmptyState]))
     /\ UNCHANGED <<lock, rt, nreq, fails, tmpFiles>>

NextPlan ==
  \E t \in Tasks :
    \/ plan_operation(t)
    \/ plan_dryRun(t)
    \/ plan_persist(t)

SpecPlan == InitPlan /\ [][NextPlan]_vars

\* the peer belongs to the interface
belongsTo(p, name) == p.interface = name \/ (p.interface = "" /\ name = "wg0")

peersOf(peers, name) ==
  LET mine(p) == belongsTo(p, name) IN SelectSeq(peers, mine)

peersNotOf(peers, name) ==
  LET foreign(p) == ~belongsTo(p, name) IN SelectSeq(peers, foreign)

\* C22: the state-store update of a successful applyPeerOperations on interface
\* I replaces exactly the peers belonging to I (interface = I, or no interface
\* when I is "wg0") with the request's in-memory list, and leaves every peer of
\* every other interface and every other interface record unchanged.
C22_ApplyReplacesOwnPeers ==
  \A t \in Tasks :
    LET r == tk[t]
        name == r.req.name
    IN (r.pc = "done" /\ r.req.kind = "apply" /\ ~r.req.dryRun /\ r.error = "none") =>
         /\ r.wrote = 1
         /\ peersOf(file.peers, name) = r.plan.cur
         /\ peersNotOf(file.peers, name) = peersNotOf(r.file0.peers, name)
         /\ \A j \in 1..Len(r.plan.cur) : belongsTo(r.plan.cur[j], name)
         /\ \A n \in IfaceNames \ {name} : file.interfaces[n] = r.file0.interfaces[n]
         /\ file.interfaces[name] = [r.file0.interfaces[name] EXCEPT !.revision = @ + 1]

\* wg0 had a peer without an interface and a peer of wg1 stood between its
\* peers; a peer named for wg1 was added to wg0 and the list was saved
C22_Witness ==
  \E t \in Tasks :
    /\ tk[t].pc = "done" /\ ~tk[t].req.dryRun /\ tk[t].error = "none"
    /\ tk[t].req.name = "wg0"
    /\ tk[t].req.operations = <<opAdd(P3)>>
    /\ tk[t].file0.peers = <<P1, Q1, P4>>
    /\ file.peers = <<Q1, P1, P4, [P3 EXCEPT !.interface = "wg0"]>>

\* the summary counters of a plan are those of `acc` but for one, grown by 1
counted(acc1, acc, which) ==
  summaryOf(acc1) = [summaryOf(acc) EXCEPT ![which] = @ + 1]

\* what one operation does to the in-memory list and to the scheduled runtime
\* ops, in the words of the specification
mapsOperation(acc, acc1, o, name) ==
  LET hits == {j \in 1..Len(acc.cur) : acc.cur[j].peerId = o.peerId}
      i == CHOOSE j \in hits : \A h \in hits : j <= h
      scheduled(rop) == acc1.rops = Append(acc.rops, rop)
  IN IF o.op = "add"
     THEN LET peer == [o.peer EXCEPT !.interface = name]
          IN /\ acc1.cur = Append(acc.cur, peer)
             /\ IF peer.isActive THEN scheduled([type |-> "add", peer |-> peer, previous |-> NoPeer])
                ELSE acc1.rops = acc.rops
             /\ counted(acc1, acc, "added")
     ELSE IF hits = {}
     THEN acc1 = acc
     ELSE IF o.op = "update"
     THEN LET next == [acc.cur[i] EXCEPT !.cfg = o.patch]
          IN /\ acc1.cur = [acc.cur EXCEPT ![i] = next]
             /\ IF next.isActive
                THEN scheduled([type |-> "update", peer |-> next, previous |-> acc.cur[i]])
                ELSE acc1.rops = acc.rops
             /\ counted(acc1, acc, "updated")
     ELSE IF o.op = "toggle"
     THEN LET next == [acc.cur[i] EXCEPT !.isActive = o.isActive]
          IN /\ acc1.cur = [acc.cur EXCEPT ![i] = next]
             /\ scheduled([type |-> IF o.isActive THEN "add" ELSE "remove",
                           peer |-> next, previous |-> NoPeer])
             /\ counted(acc1, acc, "toggled")
     ELSE /\ Len(acc1.cur) = Len(acc.cur) - 1
          /\ \A j \in 1..Len(acc1.cur) : acc1.cur[j] = acc.cur[IF j < i THEN j ELSE j + 1]
          /\ scheduled([type |-> "remove", peer |-> acc.cur[i], previous |-> NoPeer])
          /\ counted(acc1, acc, "removed")

\* C23: applyPeerOperations maps the operations, in order, to scheduled runtime
\* ops: add appends the peer (interface forced to the target) and schedules an
\* add only if the peer is active; update patches the peer and schedules an
\* update with {next, previous} only if the patched peer is active; toggle sets
\* isActive and schedules add or remove; remove drops the peer and schedules a
\* remove; an operation whose peerId matches no peer of the list is skipped, no
\* runtime op, no counter; the dry-run plan has one line per scheduled runtime
\* op, in that order.
C23_OperationsToRuntimeOps ==
  /\ [][\A t \in Tasks :
          (tk[t].pc = "pl_loop" /\ tk'[t].k = tk[t].k + 1)
          => mapsOperation(tk[t].plan, tk'[t].plan,
                           tk[t].req.operations[tk[t].k], tk[t].req.name)]_vars
  /\ [](\A t \in Tasks :
          (tk[t].pc = "done" /\ tk[t].req.dryRun) =>
            LET r == tk[t]
                upper(type) == IF type = "add" THEN "ADD"
                               ELSE IF type = "update" THEN "UPDATE" ELSE "REMOVE"
            IN /\ Len(r.result.plan) = Len(r.plan.rops)
               /\ \A j \in 1..Len(r.plan.rops) :
                    /\ r.result.plan[j][1] = upper(r.plan.rops[j].type)
                    /\ r.result.plan[j][2] = r.req.name
                    /\ r.result.plan[j][3] = r.plan.rops[j].peer.publicKey
               /\ r.result.summary = summaryOf(r.plan)
               /\ file = r.file0)

\* a dry run of "add P2, then remove it" on wg0: two lines, ADD then REMOVE
C23_Witness ==
  \E t \in Tasks :
    /\ tk[t].pc = "done" /\ tk[t].req.dryRun
    /\ tk[t].req.name = "wg0"
    /\ tk[t].req.operations = <<opAdd(P2), opRemove("p2")>>
    /\ Len(tk[t].result.plan) = 2
    /\ tk[t].result.plan[1][1] = "ADD"
    /\ tk[t].result.plan[2][1] = "REMOVE"
    /\ tk[t].result.summary.added = 1 /\ tk[t].result.summary.removed = 1

\* ------------------------------------------ the audit rings and their pages
\* pushes to the ring of wg0 (more than its capacity) and to the ring of wg1
MaxPushes == 503
MaxOtherPushes == 2

\* { id: `evt_${randomUUID()}`, at, ...entry }: the ids of a ring are numbered
\* in the order of the pushes
stamped(entry, id) == [id |-> id, action |-> entry.action, peerId |-> entry.peerId]

\* the number of pushes a ring has seen
pushes(list) == IF list = <<>> THEN 0 ELSE Head(list).id

InitAudit ==
  /\ auditStore = [n \in IfaceNames |-> <<>>]
  /\ file = UnmanagedState
  /\ rt = NoDevice
  /\ lock = NoLock
  /\ tk = [t \in Tasks |-> IdleTask]
  /\ nreq = 0
  /\ fails = 0
  /\ tmpFiles = NoTemps

\* pushAudit(name, entry), for a ring that has seen fewer than `max` pushes
audit_push(name, max) ==
  /\ pushes(auditStore[name]) < max
  /\ auditStore' = [auditStore EXCEPT
                      ![name] = pushAudit(@, stamped(AuditEntry("interface.toggle", ""),
                                                     pushes(@) + 1))]
  /\ UNCHANGED <<file, lock, rt, tk, nreq, fails, tmpFiles>>

\* the rings alone, filled beyond their capacity
NextRing ==
  \E n \in IfaceNames : audit_push(n, IF n = Name THEN MaxPushes ELSE MaxOtherPushes)

SpecRing == InitAudit /\ [][NextRing]_vars

\* the pages: rings of up to MaxPaged entries and the queries on them
MaxPaged == 4
Limits == 1..3
Cursors == 0..(MaxPaged + 1)

RECURSIVE findEntryFrom(_, _, _)
findEntryFrom(entries, id, j) ==
  IF j > Len(entries) THEN -1
  ELSE IF entries[j].id = id THEN j - 1 ELSE findEntryFrom(entries, id, j + 1)

\* entries.findIndex((entry) => entry.id === query.cursor), indices from 0
findEntry(entries, id) == findEntryFrom(entries, id, 1)

\* variant: the page begins at the entry of the cursor
startIndex_atCursor(entries, cursor) ==
  IF cursor # NoCursor
  THEN (IF findEntry(entries, cursor) > -1 THEN findEntry(entries, cursor) ELSE -1) + 1 - 1
  ELSE 0

\* query.cursor ? Math.max(findIndex(...), -1) + 1 : 0
startIndex(entries, cursor) ==
  IF cursor # NoCursor
  THEN (IF findEntry(entries, cursor) > -1 THEN findEntry(entries, cursor) ELSE -1) + 1
  ELSE 0

\* Array.prototype.slice(from, to) for 0 <= from <= to
slice(s, from, to) ==
  SubSeq(s, from + 1, IF to < Len(s) THEN to ELSE Len(s))

\* getAudit: { items, nextCursor }
getAudit(entries, query) ==
  LET from == startIndex(entries, query.cursor)
      items == slice(entries, from, from + query.limit)
  IN [NoResult EXCEPT !.ok = TRUE,
                      !.items = items,
                      !.nextCursor = IF Len(items) = query.limit
                                     THEN items[Len(items)].id ELSE NoCursor]

\* getAudit(name, query) is called and returns
audit_get(t) ==
  /\ tk[t].pc = "idle"
  /\ \E n \in IfaceNames, l \in Limits, c \in Cursors :
       LET req == [NoReq EXCEPT !.kind = "audit", !.name = n, !.limit = l, !.cursor = c]
       IN commit(t, [done([IdleTask EXCEPT !.req = req], "none", NoDetails) EXCEPT
                       !.result = getAudit(auditStore[n], req)])
  /\ UNCHANGED <<file, lock, rt, nreq, fails, tmpFiles>>

NextAudit ==
  \/ \E n \in IfaceNames : audit_push(n, MaxPaged)
  \/ \E t \in Tasks :
       \/ audit_get(t)
       \/ Respond(t)

SpecAudit == InitAudit /\ [][NextAudit]_vars

\* C24: for every interface name the audit ring holds at most 500 entries,
\* newest first, after any sequence of pushes: a push puts the new entry at the
\* head and, when the list would exceed 500, drops entries from the tail.
C24_AuditRing ==
  /\ [](\A n \in IfaceNames :
          /\ Len(auditStore[n]) <= 500
          /\ \A j \in 1..(Len(auditStore[n]) - 1) :
               auditStore[n][j].id > auditStore[n][j + 1].id)
  /\ [][\A n \in IfaceNames :
          auditStore'[n] # auditStore[n] =>
            LET old == auditStore[n]
                new == auditStore'[n]
            IN /\ Len(new) = IF Len(old) < 500 THEN Len(old) + 1 ELSE 500
               /\ new[1].id = pushes(old) + 1
               /\ \A j \in 2..Len(new) : new[j] = old[j - 1]]_vars

\* the ring of wg0 is full and its two oldest entries have been dropped, while
\* the ring of wg1 holds its one entry
C24_Witness ==
  /\ Len(auditStore["wg0"]) = 500
  /\ auditStore["wg0"][1].id = 502
  /\ auditStore["wg0"][500].id = 3
  /\ Len(auditStore["wg1"]) = 1

\* C25: getAudit(name, {limit, cursor}) changes nothing and returns the up to
\* `limit` entries that follow the entry whose id is the cursor, newest first
\* (from the newest entry without a cursor); nextCursor is the id of the last
\* returned entry if and only if exactly `limit` entries were returned, and
\* absent otherwise.
C25_GetAuditPages ==
  [][\A t \in Tasks :
       (tk[t].pc = "idle" /\ tk'[t].pc = "done" /\ tk'[t].req.kind = "audit") =>
         LET q == tk'[t].req
             list == auditStore[q.name]
             items == tk'[t].result.items
             next == tk'[t].result.nextCursor
             at == {j \in 1..Len(list) : list[j].id = q.cursor}
             pos == IF q.cursor = NoCursor THEN 0 ELSE CHOOSE j \in at : TRUE
             rest == Len(list) - pos
         IN /\ UNCHANGED <<auditStore, file, rt, lock, tmpFiles>>
            /\ (q.cursor = NoCursor \/ at # {}) =>
                 /\ Len(items) = IF rest < q.limit THEN rest ELSE q.limit
                 /\ \A j \in 1..Len(items) : items[j] = list[pos + j]
                 /\ next # NoCursor <=> Len(items) = q.limit
                 /\ next # NoCursor => next = items[Len(items)].id]_vars

\* the second page of two entries of a ring of four: it is full, so it carries
\* a cursor, though nothing follows it
C25_Witness ==
  \E t \in Tasks :
    /\ tk[t].pc = "done" /\ tk[t].req.kind = "audit"
    /\ tk[t].req.cursor = 3 /\ tk[t].req.limit = 2
    /\ Len(tk[t].result.items) = 2
    /\ tk[t].result.items[1].id = 2
    /\ tk[t].result.items[2].id = 1
    /\ tk[t].result.nextCursor = 1

\* ------------------------------------------------------- listInterfaces
\* new Set([...]): the names in the order of their first appearance
RECURSIVE SetOf(_, _)
SetOf(names, have) ==
  IF names = <<>> THEN <<>>
  ELSE IF Head(names) \in have THEN SetOf(Tail(names), have)
       ELSE <<Head(names)>> \o SetOf(Tail(names), have \cup {Head(names)})

\* Object.keys(state.interfaces)
RECURSIVE interfaceKeys(_, _)
interfaceKeys(interfaces, names) ==
  IF names = <<>> THEN <<>>
  ELSE (IF interfaces[Head(names)].present THEN <<Head(names)>> ELSE <<>>)
       \o interfaceKeys(interfaces, Tail(names))

\* state.peers.map((p) => p.interface || "wg0")
RECURSIVE peerInterfaceNames(_)
peerInterfaceNames(peers) ==
  IF peers = <<>> THEN <<>>
  ELSE <<IF Head(peers).interface = "" THEN "wg0" ELSE Head(peers).interface>>
       \o peerInterfaceNames(Tail(peers))

\* wg show interfaces: the one device of the model, if it exists
discoveredNames(dev) == IF dev.exists THEN <<Name>> ELSE <<>>

allNames(state, dev) ==
  SetOf(interfaceKeys(state.interfaces, <<"wg0", "wg1">>) \o discoveredNames(dev)
        \o SetOf(peerInterfaceNames(state.peers), {}), {})

\* the entry of one name: the record of the state file if there is one, the
\* defaults of a discovered interface otherwise
interfaceEntry(state, name) ==
  LET iface == state.interfaces[name]
      peerCount == Len(getPeersForInterface(state, name))
  IN IF iface.present
     THEN [name |-> name, isUp |-> iface.isUp, listenPort |-> iface.listenPort,
           peerCount |-> peerCount]
     ELSE [name |-> name, isUp |-> TRUE, listenPort |-> 0, peerCount |-> peerCount]

listInterfaces(state, dev) ==
  LET names == allNames(state, dev)
  IN [j \in 1..Len(names) |-> interfaceEntry(state, names[j])]

\* the state files and devices a listing may find: interfaces with and without
\* a record, up or down, peers that name wg0, wg1 or no interface
ListenPorts == {0, 51820}
ListRecords ==
  {NoIface} \cup {[present |-> TRUE, revision |-> 1, isUp |-> up, listenPort |-> port] :
                    up \in BOOLEAN, port \in ListenPorts}
ListStates ==
  {[interfaces |-> [n \in IfaceNames |-> IF n = "wg0" THEN r0 ELSE r1], peers |-> ps] :
     r0 \in ListRecords, r1 \in {NoIface, [present |-> TRUE, revision |-> 1, isUp |-> TRUE,
                                          listenPort |-> 0]},
     ps \in {<<>>, <<Q1>>, <<P1, P2>>, <<P1, Q1>>}}
ListDevices == {RuntimeWith(ks) : ks \in SUBSET Keys} \cup {NoDevice}

InitList ==
  /\ file \in ListStates
  /\ rt \in ListDevices
  /\ lock = NoLock
  /\ auditStore = <<>>
  /\ tk = [t \in Tasks |-> IdleTask]
  /\ nreq = 0
  /\ fails = 0
  /\ tmpFiles = NoTemps

\* listInterfaces: load(), wgAdapter.listInterfaces(), one entry per name
list_interfaces(t) ==
  /\ tk[t].pc = "idle"
  /\ commit(t, [done([IdleTask EXCEPT !.req = [NoReq EXCEPT !.kind = "list"]],
                     "none", NoDetails)
                 EXCEPT !.result = [NoResult EXCEPT !.ok = TRUE,
                                                    !.interfaces = listInterfaces(file, rt)]])
  /\ UNCHANGED <<file, lock, rt, nreq, fails, tmpFiles>>

NextList == \E t \in Tasks : list_interfaces(t) \/ Respond(t)

SpecList == InitList /\ [][NextList]_vars

\* the peers a device holds
runtimePeers(dev) == {k \in Keys : dev.peers[k] # Absent}

\* the names the listing is to cover
unionOfNames(state, dev) ==
  {n \in IfaceNames : state.interfaces[n].present}
  \cup (IF dev.exists THEN {Name} ELSE {})
  \cup {IF state.peers[j].interface = "" THEN "wg0" ELSE state.peers[j].interface :
          j \in 1..Len(state.peers)}

\* C26: listInterfaces returns one entry per name of the union of the persisted
\* interfaces, the runtime interfaces and the interface names of the persisted
\* peers (no interface counted as "wg0"); the entry of an interface that exists
\* only in runtime has isUp = true, listenPort = 0 and, as peerCount, the number
\* of peers the runtime holds for it.
C26_ListInterfaces ==
  \A t \in Tasks :
    (tk[t].pc = "done" /\ tk[t].req.kind = "list") =>
      LET es == tk[t].result.interfaces
      IN /\ {es[j].name : j \in 1..Len(es)} = unionOfNames(file, rt)
         /\ \A j, k \in 1..Len(es) : es[j].name = es[k].name => j = k
         /\ \A j \in 1..Len(es) :
              (~file.interfaces[es[j].name].present /\ rt.exists /\ es[j].name = Name) =>
                /\ es[j].isUp = TRUE
                /\ es[j].listenPort = 0
                /\ es[j].peerCount = Cardinality(runtimePeers(rt))

\* ------------------------------------- the adapter's temp files for keys
\* concurrent calls of upInterface and of addPeer with a preshared key, as the
\* deployments make them after their update has released the lock; every
\* await is a step
MaxCalls == 3
Secrets == {"s1", "s2"}

\* `/tmp/wg-key-${name}`
tmpKeyFile(name) == "/tmp/wg-key-" \o name

\* `/tmp/wg-psk-${interfaceName}-${peer.publicKey.substring(0, 8)}`
tmpPskFile(interfaceName, publicKey) ==
  "/tmp/wg-psk-" \o interfaceName \o "-" \o slice8[publicKey]

TempPaths ==
  {tmpKeyFile(n) : n \in IfaceNames} \cup {tmpPskFile(n, k) : n \in IfaceNames, k \in Keys}

AdapterCalls ==
  {[NoReq EXCEPT !.kind = "upInterface", !.name = n, !.secret = s] :
     n \in IfaceNames, s \in Secrets}
  \cup {[NoReq EXCEPT !.kind = "addPeer", !.name = n, !.publicKey = k, !.secret = s] :
          n \in IfaceNames, k \in Keys, s \in Secrets}

InitTemp ==
  /\ file = ManagedState
  /\ rt \in {RuntimeWith({}), NoDevice}
  /\ lock = NoLock
  /\ auditStore = <<>>
  /\ tk = [t \in Tasks |-> IdleTask]
  /\ nreq = 0
  /\ fails = 0
  /\ tmpFiles = [f \in TempPaths |-> NoFile]

\* the adapter is called; addPeer computes the path of its temp file
adapter_call(t) ==
  /\ tk[t].pc = "idle"
  /\ nreq < MaxCalls
  /\ nreq' = nreq + 1
  /\ \E req \in AdapterCalls :
       commit(t, [IdleTask EXCEPT
                    !.req = req,
                    !.pc = IF req.kind = "upInterface" THEN "ad_link" ELSE "ad_write",
                    !.tmpKeyFile = IF req.kind = "upInterface" THEN ""
                                   ELSE tmpPskFile(req.name, req.publicKey)])
  /\ UNCHANGED <<file, lock, rt, fails, tmpFiles>>

\* upInterface, step 1: listInterfaces, `ip link add` when the device is missing
\* (of the devices only wg0 is modelled)
adapter_link(t) ==
  LET r == tk[t]
  IN /\ r.pc = "ad_link"
     /\ rt' = IF r.req.name = Name /\ ~rt.exists
              THEN [exists |-> TRUE, isUp |-> FALSE, peers |-> [k \in Keys |-> Absent]]
              ELSE rt
     /\ commit(t, [r EXCEPT !.pc = "ad_write", !.tmpKeyFile = tmpKeyFile(r.req.name)])
     /\ UNCHANGED <<file, lock, nreq, fails, tmpFiles>>

\* fs.writeFile(tmpFile, key, {mode: 0o600}): creates the file or truncates and
\* rewrites the one that is there
adapter_writeFile(t) ==
  LET r == tk[t]
  IN /\ r.pc = "ad_write"
     /\ tmpFiles' = [tmpFiles EXCEPT ![r.tmpKeyFile] = [text |-> r.req.secret]]
     /\ commit(t, [r EXCEPT !.pc = "ad_wg"])
     /\ UNCHANGED <<file, lock, rt, nreq, fails>>

\* runCommand("wg", ["set", ...]): wg reads the key in the file; it fails when
\* the file is gone or the device is missing, and may fail otherwise
adapter_wg(t) ==
  LET r == tk[t]
      there == tmpFiles[r.tmpKeyFile] # NoFile
      runs == there /\ (r.req.name = Name => runCommandPossible(rt))
  IN /\ r.pc = "ad_wg"
     /\ \/ /\ runs
           /\ rt' = IF r.req.kind = "addPeer" /\ r.req.name = Name
                    THEN addPeer(rt, [publicKey |-> r.req.publicKey, cfg |-> 0])
                    ELSE rt
           /\ fails' = fails
           /\ commit(t, [r EXCEPT !.pc = "ad_unlink",
                                  !.consumed = tmpFiles[r.tmpKeyFile].text])
        \/ /\ ~runs \/ fails < MaxFail
           /\ rt' = rt
           /\ fails' = IF runs THEN fails + 1 ELSE fails
           /\ commit(t, [r EXCEPT !.pc = "ad_unlink", !.threw = "wg"])
     /\ UNCHANGED <<file, lock, nreq, tmpFiles>>

\* finally: fs.unlink(tmpFile).catch(() => {}); addPeer returns or rethrows,
\* upInterface goes on
adapter_unlink(t) ==
  LET r == tk[t]
  IN /\ r.pc = "ad_unlink"
     /\ tmpFiles' = [tmpFiles EXCEPT ![r.tmpKeyFile] = NoFile]
     /\ commit(t, IF r.threw # "none" THEN done(r, "RUNTIME", NoDetails)
                  ELSE IF r.req.kind = "addPeer" THEN done(r, "none", NoDetails)
                  ELSE [r EXCEPT !.pc = "ad_up"])
     /\ UNCHANGED <<file, lock, rt, nreq, fails>>

\* upInterface, steps 3 and 4: `ip addr add`, toggleInterface(name, true)
adapter_up(t) ==
  LET r == tk[t]
  IN /\ r.pc = "ad_up"
     /\ IF r.req.name = Name /\ ~runCommandPossible(rt)
        THEN /\ rt' = rt
             /\ commit(t, done(r, "RUNTIME", NoDetails))
        ELSE /\ rt' = IF r.req.name = Name THEN toggleInterface(rt, TRUE) ELSE rt
             /\ commit(t, done(r, "none", NoDetails))
     /\ UNCHANGED <<file, lock, nreq, fails, tmpFiles>>

NextTemp ==
  \E t \in Tasks :
    \/ adapter_call(t)
    \/ adapter_link(t)
    \/ adapter_writeFile(t)
    \/ adapter_wg(t)
    \/ adapter_unlink(t)
    \/ adapter_up(t)
    \/ Respond(t)

SpecTemp == InitTemp /\ [][NextTemp]_vars

\* the call has its temp file: between the computation of its path and the return
\* of its unlink
holdsTemp(r) == r.pc \in {"ad_write", "ad_wg", "ad_unlink"}

\* C27: concurrent calls of addPeer (with a preshared key) and of upInterface
\* never share a temp file path; no call's temp file is overwritten or unlinked
\* by another call before its own wg command has read it; and every temp file is
\* removed on every exit path of the call that created it.
C27_TempFilesArePrivate ==
  /\ \A t, u \in Tasks :
       (t # u /\ holdsTemp(tk[t]) /\ holdsTemp(tk[u])) => tk[t].tmpKeyFile # tk[u].tmpKeyFile
  /\ \A t \in Tasks :
       tk[t].pc = "ad_wg" => tmpFiles[tk[t].tmpKeyFile] = [text |-> tk[t].req.secret]
  /\ \A t \in Tasks :
       (tk[t].pc \in {"ad_up", "done"} /\ tk[t].req.kind \in {"upInterface", "addPeer"}) =>
         /\ tk[t].consumed \in {"none", tk[t].req.secret}
         /\ tk[t].threw = "none" => tk[t].consumed = tk[t].req.secret
  /\ (\A t \in Tasks : ~holdsTemp(tk[t])) => \A f \in TempPaths : tmpFiles[f] = NoFile

\* -------------------------------------------- generate.ts and ip-utils.ts
\* a + k for a small k, a + b, a - 1, a <= b
plus(a, k) == num(a.hi, a.lo + k)
sum(a, b) == num(a.hi + b.hi, a.lo + b.lo)
minusOne(a) == IF a.lo > 0 THEN [a EXCEPT !.lo = @ - 1] ELSE [hi |-> a.hi - 1, lo |-> 65535]
lessEq(a, b) == a.hi < b.hi \/ (a.hi = b.hi /\ a.lo <= b.lo)

\* 2 ** e
pow2(e) == IF e >= 16 THEN num(2 ^ (e - 16), 0) ELSE num(0, 2 ^ e)

MAX_IPV4 == [hi |-> 65535, lo |-> 65535]

\* ((parts[0] << 24) + (parts[1] << 16) + (parts[2] << 8) + parts[3]) >>> 0
ipToInt(ip) ==
  LET n == num(ip[1] * 256 + ip[2], ip[3] * 256 + ip[4])
  IN [n EXCEPT !.hi = @ % 65536]

\* [(num >>> 24) & 255, (num >>> 16) & 255, (num >>> 8) & 255, num & 255]
intToIp(n) == <<(n.hi \div 256) % 256, n.hi % 256, (n.lo \div 256) % 256, n.lo % 256>>

throw(message) == [NoParsed EXCEPT !.error = message]

\* Number(part) of a part that is no number
NaN == -1000

parseCidr(cidr) ==
  LET prefix == cidr.prefix
      base == ipToInt(cidr.ip)
      size == pow2(32 - prefix)
      last == minusOne(sum(base, size))
  IN IF cidr.ip = <<>> \/ prefix = NaN \/ prefix < 8 \/ prefix > 30
     THEN throw("CIDR gecersiz. Ornek: 10.20.0.0/24")
     ELSE IF Len(cidr.ip) # 4 \/ \E j \in 1..Len(cidr.ip) : cidr.ip[j] = NaN
     THEN throw("IPv4 adresi gecersiz.")
     ELSE IF ~lessEq(last, MAX_IPV4) THEN throw("CIDR araligi gecersiz.")
     ELSE [error |-> "none", base |-> base, prefix |-> prefix, size |-> size, last |-> last]

serverStart(parsed) == plus(parsed.base, 1)

\* variant: the clients start at base + 100
clientStart_100(parsed) == plus(parsed.base, 100)

clientStart(parsed) == plus(parsed.base, 101)

\* variant: the ring only, whatever the number of nodes
neighborIndexes_ring(index, count) ==
  IF count <= 1 THEN <<>>
  ELSE SelectSeq(SetOf(<<(index + 1) % count, (index - 1 + count) % count>>, {}),
                 LAMBDA i : i # index)

neighborIndexes(index, count) ==
  IF count <= 1 THEN <<>>
  ELSE IF count = 2 THEN <<IF index = 0 THEN 1 ELSE 0>>
  ELSE IF count = 3 THEN SelectSeq(<<0, 1, 2>>, LAMBDA i : i # index)
  ELSE LET ring == <<(index + 1) % count, (index - 1 + count) % count>>
           chord == <<(index + 3) % count, (index - 3 + count) % count>>
           neighbors == SetOf(IF count < 6 THEN ring ELSE ring \o chord, {})
       IN SelectSeq(neighbors, LAMBDA i : i # index)

\* ensure(condition, message) with a condition that is false
ensure(message) == [NoResult EXCEPT !.parsed = throw(message)]

\* resolveMeshState up to the addresses, and the neighbours generateZip computes
\* for every resolved node; the nodes and clients are named by their indices,
\* the CIDR string and the interface name are not empty
resolveMeshState(payload) ==
  LET parsed == parseCidr(payload.networkCidr)
  IN IF ~(payload.nodes > 0) THEN ensure("En az 1 node gerekli.")
     ELSE IF parsed.error # "none" THEN ensure(parsed.error)
     ELSE IF ~lessEq(plus(serverStart(parsed), payload.nodes), parsed.last)
     THEN ensure("Node sayisi CIDR'a sigmiyor.")
     ELSE IF ~lessEq(plus(clientStart(parsed), payload.clients), parsed.last)
     THEN ensure("Client sayisi CIDR'a sigmiyor.")
     ELSE IF \E g \in payload.gatewayNodeNames : g \notin 1..payload.nodes
     THEN ensure("Gateway node bulunamadi")
     ELSE [NoResult EXCEPT
             !.ok = TRUE,
             !.parsed = parsed,
             !.nodeIps = [i \in 1..payload.nodes |-> intToIp(plus(serverStart(parsed), i - 1))],
             !.clientIps = [i \in 1..payload.clients |->
                              intToIp(plus(clientStart(parsed), i - 1))],
             !.neighbors = [i \in 1..payload.nodes |-> neighborIndexes(i - 1, payload.nodes)]]

\* the payloads: aligned and unaligned networks, the top of the address space,
\* a malformed address, no address, prefixes in and out of 8..30, node and client counts
\* around the capacities of /24, /25 and /30
CidrIps == {<<10, 20, 0, 0>>, <<10, 20, 0, 5>>, <<255, 255, 255, 252>>, <<255, 255, 255, 0>>,
            <<10, 20, 0>>, <<>>}
Prefixes == {7, 8, 24, 25, 30, 31}
NodeCounts == (0..8) \cup {126, 127, 254, 255}
ClientCounts == {0, 1, 2, 26, 27, 154, 155}
Gateways == {{}, {1}, {0}}
MaxGenerates == 1

Payloads ==
  {[NoReq EXCEPT !.kind = "generate", !.networkCidr = [ip |-> ip, prefix |-> prefix],
                 !.nodes = n, !.clients = c, !.gatewayNodeNames = g] :
     ip \in CidrIps, prefix \in Prefixes, n \in NodeCounts, c \in ClientCounts, g \in Gateways}

InitGenerate ==
  /\ file = EmptyState
  /\ rt = NoDevice
  /\ lock = NoLock
  /\ auditStore = <<>>
  /\ tk = [t \in Tasks |-> IdleTask]
  /\ nreq = 0
  /\ fails = 0
  /\ tmpFiles = NoTemps

\* generateZip is called with a payload
generate(t) ==
  /\ tk[t].pc = "idle"
  /\ \A u \in Earlier(t) : tk[u].pc # "idle"
  /\ nreq < MaxGenerates
  /\ nreq' = nreq + 1
  /\ \E payload \in Payloads :
       LET res == resolveMeshState(payload)
       IN commit(t, [done([IdleTask EXCEPT !.req = payload], res.parsed.error, NoDetails)
                      EXCEPT !.result = res])
  /\ UNCHANGED <<file, lock, rt, fails, tmpFiles>>

NextGenerate == \E t \in Tasks : generate(t) \/ Respond(t)

SpecGenerate == InitGenerate /\ [][NextGenerate]_vars

\* a generation that has returned or thrown
generated(r) == r.pc = "done" /\ r.req.kind = "generate"

\* C28: for a payload the resolver accepts, the node at index i has the address
\* base + 1 + i and the client at index i the address base + 101 + i, and every
\* assigned address is <= last = base + 2^(32 - prefix) - 1.
C28_Addresses ==
  \A t \in Tasks :
    (generated(tk[t]) /\ tk[t].error = "none") =>
      LET q == tk[t].req
          res == tk[t].result
          base == ipToInt(q.networkCidr.ip)
          last == minusOne(sum(base, pow2(32 - q.networkCidr.prefix)))
      IN /\ Len(res.nodeIps) = q.nodes
         /\ Len(res.clientIps) = q.clients
         /\ \A i \in 0..(q.nodes - 1) :
              /\ ipToInt(res.nodeIps[i + 1]) = plus(base, 1 + i)
              /\ lessEq(ipToInt(res.nodeIps[i + 1]), last)
         /\ \A i \in 0..(q.clients - 1) :
              /\ ipToInt(res.clientIps[i + 1]) = plus(base, 101 + i)
              /\ lessEq(ipToInt(res.clientIps[i + 1]), last)

\* a full /24: 254 nodes and 154 clients, the last of each at 10.20.0.254
C28_Witness ==
  \E t \in Tasks :
    /\ generated(tk[t]) /\ tk[t].error = "none"
    /\ tk[t].req.networkCidr = [ip |-> <<10, 20, 0, 0>>, prefix |-> 24]
    /\ tk[t].req.nodes = 254 /\ tk[t].req.clients = 154
    /\ tk[t].result.nodeIps[1] = <<10, 20, 0, 1>>
    /\ tk[t].result.nodeIps[254] = <<10, 20, 0, 254>>
    /\ tk[t].result.clientIps[1] = <<10, 20, 0, 101>>
    /\ tk[t].result.clientIps[154] = <<10, 20, 0, 254>>

\* the errors of the two capacity checks
CapacityErrors == {"Node sayisi CIDR'a sigmiyor.", "Client sayisi CIDR'a sigmiyor."}

\* C29: on a /30 network (4 addresses) a payload with 1 node and 0 clients is
\* resolved, and a payload with 2 clients fails with a capacity error.
C29_Slash30 ==
  \A t \in Tasks :
    (/\ generated(tk[t])
     /\ tk[t].req.networkCidr.prefix = 30
     /\ Len(tk[t].req.networkCidr.ip) = 4
     /\ tk[t].req.gatewayNodeNames = {}) =>
      /\ (tk[t].req.nodes = 1 /\ tk[t].req.clients = 0) => tk[t].error = "none"
      /\ (tk[t].req.nodes = 1 /\ tk[t].req.clients = 2) => tk[t].error \in CapacityErrors

\* N(i, n)
N(i, n) ==
  IF n <= 1 THEN {}
  ELSE IF n = 2 THEN {1 - i}
  ELSE IF n = 3 THEN {0, 1, 2} \ {i}
  ELSE IF n < 6 THEN {(i + 1) % n, (i - 1) % n}
  ELSE {(i + 1) % n, (i - 1) % n, (i + 3) % n, (i - 3) % n}

\* C30: for every node count n and every index i in 0..n-1, neighborIndexes(i, n)
\* is the set N(i, n), holds neither i nor a duplicate, and the relation is
\* symmetric: j is a neighbour of i iff i is a neighbour of j.
C30_Neighbors ==
  \A t \in Tasks :
    (generated(tk[t]) /\ tk[t].error = "none") =>
      LET n == tk[t].req.nodes
          of(i) == tk[t].result.neighbors[i + 1]
          set(i) == {of(i)[j] : j \in 1..Len(of(i))}
      IN \A i \in 0..(n - 1) :
           /\ set(i) = N(i, n)
           /\ i \notin set(i)
           /\ Cardinality(set(i)) = Len(of(i))
           /\ \A j \in 0..(n - 1) : j \in set(i) <=> i \in set(j)

\* six nodes: the two chords of node 0 meet at node 3, which is listed once
C30_Witness ==
  \E t \in Tasks :
    /\ generated(tk[t]) /\ tk[t].error = "none"
    /\ tk[t].req.nodes = 6
    /\ tk[t].result.neighbors[1] = <<1, 5, 3>>
    /\ tk[t].result.neighbors[4] = <<4, 2, 0>>

\* ------------------------------------------------- psk.ts and the PSK cache
\* strings are sequences of UTF-16 code units: " " 32, ":" 58, "a" 97 ...
\* a < b in the order of Array.prototype.sort() without a comparator
RECURSIVE lexLess(_, _)
lexLess(a, b) ==
  IF b = <<>> THEN FALSE
  ELSE IF a = <<>> THEN TRUE
  ELSE IF Head(a) # Head(b) THEN Head(a) < Head(b)
  ELSE lexLess(Tail(a), Tail(b))

\* variant: the pair is left in the order of the arguments
sorted_asGiven(a, b) == <<a, b>>

\* [a, b].sort()
sorted(a, b) == IF lexLess(b, a) THEN <<b, a>> ELSE <<a, b>>

RECURSIVE trimStart(_)
trimStart(s) == IF s # <<>> /\ Head(s) = 32 THEN trimStart(Tail(s)) ELSE s

RECURSIVE trimEnd(_)
trimEnd(s) ==
  IF s # <<>> /\ s[Len(s)] = 32 THEN trimEnd(SubSeq(s, 1, Len(s) - 1)) ELSE s

trim(s) == trimEnd(trimStart(s))

\* "wg-mesh-psk::"
SeedPrefix == <<119, 103, 45, 109, 101, 115, 104, 45, 112, 115, 107, 58, 58>>

\* the hash and its encoding, without collisions: the digest names its input
sha256(seed) == [sha256 |-> seed]
bytesToBase64(bytes) == [base64 |-> bytes]

deriveDeterministicPsk(a, b) ==
  LET pair == sorted(trim(a), trim(b))
      seed == SeedPrefix \o pair[1] \o <<58, 58>> \o pair[2]
  IN bytesToBase64(sha256(seed))

\* `${sorted[0]}::${sorted[1]}`
getPairKey(a, b) == sorted(a, b)[1] \o <<58, 58>> \o sorted(a, b)[2]

\* getPsk: the map after the call and the PSK returned
getPsk(map, a, b) ==
  LET key == getPairKey(a, b)
      set == IF key \in DOMAIN map THEN map
             ELSE [k \in DOMAIN map \cup {key} |->
                     IF k = key THEN deriveDeterministicPsk(a, b) ELSE map[k]]
  IN [pskMap |-> set, psk |-> set[key]]

\* the names of the peers: plain ones, one with a leading space, two that hold
\* the separator
PeerNames ==
  {<<97>>, <<98>>, <<99>>, <<32, 98>>, <<97, 58, 58, 99>>, <<32, 98, 58, 58, 97>>}
MaxPskCalls == 3

\* generateZip has resolved the mesh: the cache is empty
psk_start(t) ==
  /\ tk[t].pc = "idle"
  /\ \A u \in Earlier(t) : tk[u].pc # "idle"
  /\ nreq < MaxGenerates
  /\ nreq' = nreq + 1
  /\ commit(t, [IdleTask EXCEPT !.req = [NoReq EXCEPT !.kind = "generate"], !.pc = "psk"])
  /\ UNCHANGED <<file, lock, rt, fails, tmpFiles>>

\* a configuration asks for the PSK of two peers
psk_get(t) ==
  LET r == tk[t]
  IN /\ r.pc = "psk"
     /\ r.k < MaxPskCalls
     /\ \E a \in PeerNames, b \in PeerNames :
          LET got == getPsk(r.pskMap, a, b)
          IN commit(t, [r EXCEPT !.pskMap = got.pskMap, !.psk = got.psk, !.k = @ + 1,
                                 !.asked = @ \cup {<<a, b>>}, !.stack = <<a, b>>])
     /\ UNCHANGED <<file, lock, rt, nreq, fails, tmpFiles>>

\* the archive is built: the cache goes with the call
psk_finish(t) ==
  /\ tk[t].pc = "psk"
  /\ commit(t, done(tk[t], "none", NoDetails))
  /\ UNCHANGED <<file, lock, rt, nreq, fails, tmpFiles>>

NextPsk == \E t \in Tasks : psk_start(t) \/ psk_get(t) \/ psk_finish(t) \/ Respond(t)

SpecPsk == InitGenerate /\ [][NextPsk]_vars

NoKey == ""
BadPrivateKey == "short"
KeyShapes ==
  {[privateKey |-> priv, publicKey |-> pub] :
     priv \in {NoKey, "priv", BadPrivateKey}, pub \in {NoKey, "pub"}}

\* generateKeypair(): 32 random bytes and their public key
generateKeypair == [privateKey |-> "random", publicKey |-> "x25519(random)"]

\* derivePublicKey: the key must decode to 32 bytes
derivePublicKey(privateKey) ==
  IF privateKey = BadPrivateKey THEN NoKey ELSE "x25519(" \o privateKey \o ")"

\* one turn of nodes.map / clients.map (generate.ts 117-137)
resolvePeer(peer, autoGenerateKeys) ==
  IF autoGenerateKeys /\ peer.publicKey = NoKey /\ peer.privateKey = NoKey
  THEN generateKeypair
  ELSE IF peer.privateKey # NoKey /\ peer.publicKey = NoKey
  THEN [peer EXCEPT !.publicKey = derivePublicKey(peer.privateKey)]
  ELSE peer

\* derivePublicKey throws in one of the turns
deriveThrows(peers, autoGenerateKeys) ==
  \E j \in 1..Len(peers) :
    /\ peers[j].privateKey = BadPrivateKey
    /\ peers[j].publicKey = NoKey

\* resolveMeshState, the keys included
resolveMeshKeys(payload) ==
  LET res == resolveMeshState(payload)
      auto == payload.autoGenerateKeys
  IN IF res.parsed.error # "none" THEN res
     ELSE IF deriveThrows(payload.nodeKeys \o payload.clientKeys, auto)
     THEN ensure("Private key base64 gecersiz.")
     ELSE [res EXCEPT
             !.resolvedNodes = [j \in 1..Len(payload.nodeKeys) |->
                                  resolvePeer(payload.nodeKeys[j], auto)],
             !.resolvedClients = [j \in 1..Len(payload.clientKeys) |->
                                    resolvePeer(payload.clientKeys[j], auto)]]

\* payloads on 10.20.0.0/24 with one or two nodes and at most one client
KeyPayloads ==
  {[NoReq EXCEPT !.kind = "generate",
                 !.networkCidr = [ip |-> <<10, 20, 0, 0>>, prefix |-> 24],
                 !.nodes = Len(ns), !.clients = Len(cs),
                 !.autoGenerateKeys = auto, !.nodeKeys = ns, !.clientKeys = cs] :
     auto \in BOOLEAN,
     ns \in {<<a>> : a \in KeyShapes} \cup {<<a, b>> : a \in KeyShapes, b \in KeyShapes},
     cs \in {<<>>} \cup {<<a>> : a \in KeyShapes}}

\* resolveMeshState is called
resolve_keys(t) ==
  /\ tk[t].pc = "idle"
  /\ \A u \in Earlier(t) : tk[u].pc # "idle"
  /\ nreq < MaxGenerates
  /\ nreq' = nreq + 1
  /\ \E payload \in KeyPayloads :
       LET res == resolveMeshKeys(payload)
       IN commit(t, [done([IdleTask EXCEPT !.req = payload], res.parsed.error, NoDetails)
                      EXCEPT !.result = res])
  /\ UNCHANGED <<file, lock, rt, fails, tmpFiles>>

NextKeys == \E t \in Tasks : resolve_keys(t) \/ Respond(t)

SpecKeys == InitGenerate /\ [][NextKeys]_vars

\* the peers of a payload and of its result, nodes first
peersIn(r) == r.req.nodeKeys \o r.req.clientKeys
peersOut(r) == r.result.resolvedNodes \o r.result.resolvedClients

\* some key of the peer is still missing once the two filling rules are applied
stillMissing(peer, auto) ==
  /\ ~(auto /\ peer.privateKey = NoKey /\ peer.publicKey = NoKey)
  /\ ~(peer.privateKey # NoKey /\ peer.publicKey = NoKey)
  /\ (peer.privateKey = NoKey \/ peer.publicKey = NoKey)

\* C32: a peer with neither key gets a generated keypair when autoGenerateKeys
\* is true; a peer with a private key and no public key gets the derived public
\* key; in every other case where a key is still missing the resolution fails,
\* so a resolved mesh never holds a peer without a private or a public key.
C32_KeysFilled ==
  \A t \in Tasks :
    (generated(tk[t]) /\ tk[t].req.nodeKeys # <<>>) =>
      LET r == tk[t]
          auto == r.req.autoGenerateKeys
      IN /\ (\E j \in 1..Len(peersIn(r)) : stillMissing(peersIn(r)[j], auto)) =>
              r.error # "none"
         /\ r.error = "none" =>
              /\ Len(peersOut(r)) = Len(peersIn(r))
              /\ \A j \in 1..Len(peersOut(r)) :
                   LET in == peersIn(r)[j]
                       out == peersOut(r)[j]
                   IN /\ out.privateKey # NoKey
                      /\ out.publicKey # NoKey
                      /\ (auto /\ in.privateKey = NoKey /\ in.publicKey = NoKey) =>
                           out = generateKeypair
                      /\ (in.privateKey # NoKey /\ in.publicKey = NoKey) =>
                           out = [in EXCEPT !.publicKey = derivePublicKey(in.privateKey)]

\* ---------------------------------------------------------- parseCidr alone
\* the parts of the address: numbers in and out of 0..255 and a part that is
\* no number; three parts; the prefixes around 8..30 and one that is no number
Octets == {0, 10, 255, 256, -1, NaN}
CidrInputs ==
  {[ip |-> ip, prefix |-> prefix] :
     ip \in [1..4 -> Octets] \cup {<<10, 20, 0>>},
     prefix \in {7, 8, 24, 30, 31, NaN}}

\* parseCidr is called (by resolveMeshState, by calculateClientIp)
parse_cidr(t) ==
  /\ tk[t].pc = "idle"
  /\ \A u \in Earlier(t) : tk[u].pc # "idle"
  /\ nreq < MaxGenerates
  /\ nreq' = nreq + 1
  /\ \E cidr \in CidrInputs :
       LET parsed == parseCidr(cidr)
       IN commit(t, [done([IdleTask EXCEPT !.req = [NoReq EXCEPT !.kind = "parseCidr",
                                                                 !.networkCidr = cidr]],
                          parsed.error, NoDetails)
                      EXCEPT !.result = [NoResult EXCEPT !.ok = parsed.error = "none",
                                                         !.parsed = parsed]])
  /\ UNCHANGED <<file, lock, rt, fails, tmpFiles>>

NextCidr == \E t \in Tasks : parse_cidr(t) \/ Respond(t)

SpecCidr == InitGenerate /\ [][NextCidr]_vars

\* C33: parseCidr fails for every A.B.C.D/p in which some octet is no number or
\* lies outside 0..255, or in which p lies outside 8..30; for an accepted input
\* it returns size = 2^(32 - p) and last = base + size - 1.
C33_ParseCidr ==
  \A t \in Tasks :
    (tk[t].pc = "done" /\ tk[t].req.kind = "parseCidr") =>
      LET cidr == tk[t].req.networkCidr
          parsed == tk[t].result.parsed
          badOctet == \E j \in 1..Len(cidr.ip) :
                        cidr.ip[j] = NaN \/ cidr.ip[j] < 0 \/ cidr.ip[j] > 255
          badPrefix == cidr.prefix = NaN \/ cidr.prefix < 8 \/ cidr.prefix > 30
      IN /\ (badOctet \/ badPrefix) => tk[t].error # "none"
         /\ tk[t].error = "none" =>
              /\ parsed.size = pow2(32 - cidr.prefix)
              /\ parsed.last = minusOne(sum(parsed.base, parsed.size))

\* ------------------------------- load() and update() on every exit path
\* applies and dry runs on the worlds of Init and on a state file that is no
\* document; the load rejects such a file
InitExit ==
  /\ \E w \in InitialWorlds \cup {<<Torn, RuntimeWith({"k1"})>>} : file = w[1] /\ rt = w[2]
  /\ lock = NoLock
  /\ auditStore = <<>>
  /\ tk = [t \in Tasks |-> IdleTask]
  /\ nreq = 0
  /\ fails = 0
  /\ tmpFiles = NoTemps

StartApply(t) ==
  /\ tk[t].pc = "idle"
  /\ \A u \in Earlier(t) : tk[u].pc # "idle"
  /\ nreq < MaxReqs
  /\ nreq' = nreq + 1
  /\ \E req \in ApplyRequests :
       commit(t, [IdleTask EXCEPT !.req = req, !.pc = "acq_create", !.phase = "load",
                                  !.rt0 = rt, !.file0 = file])
  /\ UNCHANGED <<file, lock, rt, fails, tmpFiles>>

NextExit ==
  \E t \in Tasks :
    \/ StartApply(t)
    \/ Respond(t)
    \/ acquireLock_create(t)
    \/ acquireLock_read(t)
    \/ acquireLock_retry(t)
    \/ loadStateFile(t)
    \/ closure_getInterface(t)
    \/ saveWithoutLock(t)
    \/ releaseLock(t)
    \/ getInterface_probe(t)
    \/ apply_runtimeOp(t)
    \/ rollbackRuntime(t)

SpecExit == InitExit /\ [][NextExit]_vars

\* between the return of acquireLock and the call of releaseLock
InTry(r) == r.pc \in {"cs_load", "cs_iface", "cs_save"}

\* C34: update() and load() release the lock on every exit path once they have
\* it: whatever ends the try block (the closure returns or throws, the state
\* file is no valid document, the save fails), the next step is releaseLock,
\* which unlinks the lock file; when the closure throws or the load fails the
\* state file is not written; and load() never writes the state file.
C34_LockReleasedOnEveryExit ==
  [][\A t \in Tasks :
       LET r == tk[t]
           q == tk'[t]
       IN /\ (InTry(r) /\ q # r) => (InTry(q) \/ q.pc = "release")
          /\ (r.pc = "release" /\ q # r) => (lock' = NoLock /\ file' = file)
          /\ (InTry(r) /\ q.pc = "release" /\ q.error # "none" /\ r.pc # "cs_save") =>
               (file' = file /\ q.wrote = r.wrote)
          /\ (r.phase = "load" /\ q # r /\ (InTry(r) \/ InAcquireLock(t))) =>
               (file' = file /\ q.wrote = r.wrote /\ (InTry(r) => q.pc = "release"))]_vars

\* the closure of an apply threw: its runtime ops had run, so its revision was
\* the current one when it loaded, and another apply was saved in between; the
\* call wrote nothing and the lock file is gone
C34_Witness ==
  \E t \in Tasks :
    /\ tk[t].pc = "done" /\ tk[t].req.kind = "apply"
    /\ tk[t].error = "REVISION_CONFLICT"
    /\ tk[t].calls # <<>>
    /\ tk[t].wrote = 0
    /\ lock = NoLock
    /\ \E u \in Tasks \ {t} : tk[u].pc = "done" /\ tk[u].wrote = 1

\* ------------------------------- the catch block of reconcileInterface

\* a reconcileInterface call in mode state_to_runtime one of whose fixes failed
fixFailed(r) ==
  /\ r.req.kind = "reconcile"
  /\ r.req.mode = "state_to_runtime"
  /\ \E j \in 1..Len(r.calls) : j <= Len(r.plan.rops) /\ ~r.calls[j].ok

\* the compensation the claim names for the fix of one key: an added peer is
\* removed, a removed zombie is added again with the attributes it had in runtime
C35_Compensation(op, rt0) ==
  IF op.type = "add" THEN Call("removePeer", op.peer.publicKey, Absent, TRUE)
  ELSE Call("addPeer", op.peer.publicKey, rt0.peers[op.peer.publicKey], TRUE)

\* C35: when a fix of reconcileInterface(state_to_runtime) fails after k fixes
\* succeeded, the k fixes are compensated last-in first-out (an added peer is
\* removed, a removed zombie is added again with its runtime attributes), each
\* of the k compensations is attempted whether or not an earlier one failed, the
\* call ends with the error of the fix, nothing is saved, and the state file
\* (revision included) of a call that ran alone is the one it found.
C35_ReconcileRollback ==
  \A t \in Tasks :
    LET r == tk[t]
        rops == r.plan.rops
        k == Len(r.stack)
    IN fixFailed(r) =>
         /\ r.pc \in {"rc_rollback", "done"}
         /\ r.error = "RUNTIME"
         /\ ~r.result.ok
         /\ r.wrote = 0
         /\ r.pushed = 0
         /\ k < Len(rops)
         /\ r.stack = SubSeq(rops, 1, k)
         /\ \A j \in 1..k : r.calls[j] = runtimeCallOf(rops[j])
         /\ r.calls[k + 1] = failed(runtimeCallOf(rops[k + 1]))
         /\ r.pc = "rc_rollback" => Len(r.calls) = k + 1 + (k - r.k)
         /\ r.pc = "done" => Len(r.calls) = k + 1 + k
         /\ nreq = 1 =>
              /\ file = r.file0
              /\ \A j \in 1..(Len(r.calls) - k - 1) :
                   [r.calls[k + 1 + j] EXCEPT !.ok = TRUE]
                     = C35_Compensation(rops[k + 1 - j], r.rt0)

\* the third fix failed; the removed zombie could not be added again, and the
\* added peer was removed all the same
C35_Witness ==
  \E t \in Tasks :
    /\ nreq = 1
    /\ tk[t].pc = "done"
    /\ fixFailed(tk[t])
    /\ Len(tk[t].stack) = 2
    /\ tk[t].stack[1].type = "add"
    /\ tk[t].stack[2].type = "remove"
    /\ Len(tk[t].calls) = 5
    /\ tk[t].calls[4].fn = "addPeer" /\ ~tk[t].calls[4].ok
    /\ tk[t].calls[5].fn = "removePeer" /\ tk[t].calls[5].ok
    /\ tk[t].error = "RUNTIME"
    /\ file = tk[t].file0

\* ------------------------------- applies one after the other
\* a second record with the public key of p1
P5 == Peer("p5", "k1", TRUE, "wg0", 0)

\* non-dry-run applies; one replaces the record of p1 by a new record with the
\* same public key
SequenceRequests ==
  {[NoReq EXCEPT !.kind = "apply", !.revision = v, !.dryRun = FALSE, !.operations = b] :
     v \in 0..MaxReqs, b \in Batches \cup {<<opAdd(P5), opRemove("p1")>>}}

\* the public keys of the active managed peers of an interface
activeKeys(state, name) ==
  LET mine == getPeersForInterface(state, name)
  IN {mine[j].publicKey : j \in {i \in 1..Len(mine) : mine[i].isActive}}

\* the keys of the runtime peers of the device
runtimeKeys(dev) == {k \in Keys : dev.exists /\ dev.peers[k] # Absent}

\* runtime and state file agree on the peers of the interface
inSync == runtimeKeys(rt) = activeKeys(file, Name)

InitSequence ==
  /\ \E w \in {<<ManagedState, RuntimeWith({"k1"})>>, <<UnmanagedState, RuntimeWith({})>>} :
       file = w[1] /\ rt = w[2]
  /\ lock \in {NoLock, DeadOld}
  /\ auditStore = <<>>
  /\ tk = [t \in Tasks |-> IdleTask]
  /\ nreq = 0
  /\ fails = 0
  /\ tmpFiles = NoTemps

\* applyPeerOperations is called while no other request is being handled
StartSequence(t) ==
  /\ tk[t].pc = "idle"
  /\ \A u \in Tasks : tk[u].pc \in {"idle", "done"}
  /\ \A u \in Earlier(t) : tk[u].pc # "idle"
  /\ nreq < MaxReqs
  /\ nreq' = nreq + 1
  /\ \E req \in SequenceRequests :
       commit(t, [IdleTask EXCEPT !.req = req, !.pc = "acq_create", !.phase = "load",
                                  !.rt0 = rt, !.file0 = file])
  /\ UNCHANGED <<file, lock, rt, fails, tmpFiles>>

NextSequence ==
  \E t \in Tasks :
    \/ StartSequence(t)
    \/ acquireLock_create(t)
    \/ acquireLock_read(t)
    \/ acquireLock_retry(t)
    \/ loadWithoutLock(t)
    \/ closure_getInterface(t)
    \/ saveWithoutLock(t)
    \/ releaseLock(t)
    \/ getInterface_probe(t)
    \/ apply_runtimeOp(t)
    \/ rollbackRuntime(t)

SpecSequence == InitSequence /\ [][NextSequence]_vars

\* C36: when the runtime peer keys of the interface equal the public keys of
\* its active managed peers, they are equal again after every sequence of
\* non-dry-run applyPeerOperations calls that ran one after the other and all
\* succeeded.
C36_AppliesKeepRuntimeInSync ==
  (\A t \in Tasks : tk[t].pc \in {"idle", "done"} /\ tk[t].error = "none") => inSync

\* ------------------------------- two applies that race on one revision
\* t lost against u: both applies carried the same revision and found the same
\* state file, in sync with the runtime; u saved; t ran its runtime ops, was
\* rejected by the assertRevision of its closure and has finished its rollback,
\* every call of which ran
lostAgainst(t, u) ==
  /\ applyOf(tk[t]) /\ applyOf(tk[u])
  /\ tk[t].pc = "done" /\ tk[u].pc = "done"
  /\ tk[u].error = "none" /\ tk[u].wrote = 1
  /\ tk[t].error = "REVISION_CONFLICT" /\ tk[t].wrote = 0
  /\ Len(tk[t].stack) >= 1
  /\ fails = 0
  /\ tk[t].req.revision = tk[u].req.revision
  /\ tk[t].file0 = tk[u].file0
  /\ runtimeKeys(tk[u].rt0) = activeKeys(tk[u].file0, Name)

\* C37: when two applyPeerOperations requests with the same revision race and
\* one is rejected with a revision conflict at persist time, then after the
\* loser's runtime ops and their rollback the runtime peer keys are the public
\* keys of the active peers in the state the winner saved.
C37_LoserLeavesWinnersPeers ==
  \A t, u \in Tasks : lostAgainst(t, u) => inSync

\* ------------------------------- a deployment that fails
\* C38: when deployMeshConfig fails in upInterface, in a purging removePeer or
\* in an addPeer, the state file is the one the call found: a failed deploy that
\* ran alone has not replaced the record of the interface and its peers.
C38_FailedDeployPersistsNothing ==
  \A t \in Tasks :
    (/\ nreq = 1
     /\ tk[t].pc = "done"
     /\ tk[t].req.kind = "deploy"
     /\ tk[t].error = "RUNTIME") => file = tk[t].file0

\* ------------------------------- the lock file of a dead owner
\* the owner died after its exclusive create (open with O_CREAT | O_EXCL) and
\* before or after the write of "<pid>:<ms>": the file is empty, young or old
InitDeadLock ==
  /\ \E w \in InitialWorlds : file = w[1] /\ rt = w[2]
  /\ lock \in {DeadEmpty, DeadFresh, DeadOld}
  /\ auditStore = <<>>
  /\ tk = [t \in Tasks |-> IdleTask]
  /\ nreq = 0
  /\ fails = 0
  /\ tmpFiles = NoTemps

\* a request whose handler calls load() arrives; such requests never stop coming
StartLoad(t) ==
  /\ tk[t].pc = "idle"
  /\ \A u \in Earlier(t) : tk[u].pc # "idle"
  /\ \E req \in {q \in Requests : q.dryRun} :
       commit(t, [IdleTask EXCEPT !.req = req, !.pc = "acq_create", !.phase = "load",
                                  !.rt0 = rt, !.file0 = file])
  /\ UNCHANGED <<file, lock, rt, nreq, fails, tmpFiles>>

NextDeadLock ==
  \/ lockAges
  \/ \E t \in Tasks :
       \/ StartLoad(t)
       \/ LockStep(t)

\* the clock advances, requests keep arriving, and every started continuation
\* is eventually run
SpecDeadLock ==
  /\ InitDeadLock
  /\ [][NextDeadLock]_vars
  /\ WF_vars(lockAges)
  /\ \A t \in Tasks : WF_vars(StartLoad(t)) /\ WF_vars(LockStep(t))

\* C39: a lock file left behind by a process that died, at any point of its
\* exclusive create and write, is eventually removed as stale and some later
\* acquireLock call gets the lock.
C39_DeadLockIsRemoved ==
  (lock \in {DeadEmpty, DeadFresh, DeadOld}) ~> (\E t \in Tasks : lock = t)

\* ------------------------------- the addresses of one mesh
\* C40: in a mesh the resolver accepts, no two peers have the same address: the
\* node addresses are pairwise distinct, the client addresses are pairwise
\* distinct, and no node address is a client address.
C40_AddressesDistinct ==
  \A t \in Tasks :
    (generated(tk[t]) /\ tk[t].error = "none") =>
      LET nodeIps == tk[t].result.nodeIps
          clientIps == tk[t].result.clientIps
      IN /\ \A i, j \in 1..Len(nodeIps) : nodeIps[i] = nodeIps[j] => i = j
         /\ \A i, j \in 1..Len(clientIps) : clientIps[i] = clientIps[j] => i = j
         /\ \A i \in 1..Len(nodeIps) : \A j \in 1..Len(clientIps) : nodeIps[i] # clientIps[j]

====
